---- MODULE Spec2Model ----
(***************************************************************************)
(* The completion queue of the PSM provider (prov/psm/src/psmx_cq.c):      *)
(* the event FIFO and record pool of each CQ, the progress driver          *)
(* psmx_cq_poll_mq that turns MQ completions into events and counter       *)
(* increments, and the consumer calls read / readerr / write.              *)
(*                                                                         *)
(* Sizes and capacities are counted in 8-byte words.  The allocator is     *)
(* taken to succeed (calloc never returns NULL).                           *)
(***************************************************************************)
EXTENDS Integers, Sequences, FiniteSets, TLC

----------------------------------------------------------------------------
(* Bounds of the model *)

\* completions the transport makes ready plus successful fi_cq_write calls
\* during one run
MaxOps == 2
\* records PSMX_FREE_LIST_INIT gives each pool (64 in the source)
PoolCount == 1
\* length of the one multi-recv buffer (req->len) and its minimum chunk
MultiLen == 3
MultiMin == 2

----------------------------------------------------------------------------
(* Program constants *)

NULL == 0

PSM_OK == 0
PSM_NO_MEMORY == 4
PSM_INTERNAL_ERR == 8
PSM_MQ_NO_COMPLETIONS == 60
PSM_MQ_TRUNCATION == 61

FI_EINVAL == 22
FI_ETOOSMALL == 257
FI_EAVAIL == 259
FI_EOTHER == 260
FI_ENOSYS == 38
FI_ENOMEM == 12
ENOSYS == 38
EMFILE == 24

FI_CQ_FORMAT_UNSPEC == 0
FI_CQ_FORMAT_CONTEXT == 1
FI_CQ_FORMAT_MSG == 2
FI_CQ_FORMAT_DATA == 3
FI_CQ_FORMAT_TAGGED == 4

FI_MULTI_RECV == 16

FI_WAIT_NONE == 0
FI_WAIT_UNSPECIFIED == 1
FI_WAIT_SET == 2
FI_WAIT_FD == 3
FI_WAIT_MUT_COND == 4

FI_CQ_COND_NONE == 0
FI_CQ_COND_THRESHOLD == 1

FI_GETWAIT == 5

Formats == {FI_CQ_FORMAT_CONTEXT, FI_CQ_FORMAT_MSG, FI_CQ_FORMAT_DATA, FI_CQ_FORMAT_TAGGED}

\* the context kinds PSMX_CTXT_TYPE distinguishes
SendKinds == {"NOCOMP_SEND", "INJECT", "SEND"}
WriteKinds == {"NOCOMP_WRITE", "INJECT_WRITE", "WRITE"}
ReadKinds == {"NOCOMP_READ", "READ"}
RecvKinds == {"NOCOMP_RECV", "RECV", "MULTI_RECV"}
RemoteKinds == {"REMOTE_WRITE", "REMOTE_READ"}
Kinds == SendKinds \cup WriteKinds \cup ReadKinds \cup RecvKinds \cup RemoteKinds

CQs == {1, 2}

----------------------------------------------------------------------------
(* Entry shapes: the fields of each fixed entry, in layout order *)

EntryFields(fmt) ==
    CASE fmt = FI_CQ_FORMAT_CONTEXT -> <<"op_context">>
      [] fmt = FI_CQ_FORMAT_MSG -> <<"op_context", "flags", "len">>
      [] fmt = FI_CQ_FORMAT_DATA -> <<"op_context", "buf", "flags", "len", "data">>
      [] fmt = FI_CQ_FORMAT_TAGGED -> <<"op_context", "buf", "flags", "len", "data", "tag">>

ErrFields == <<"op_context", "err", "prov_errno", "data", "tag", "olen">>

\* sizeof(struct fi_cq_*_entry), sizeof(struct fi_cq_err_entry), and the
\* size of the union an event holds
EntrySize(fmt) == Len(EntryFields(fmt))
ErrEntrySize == Len(ErrFields)
CqeWords == IF ErrEntrySize > EntrySize(FI_CQ_FORMAT_TAGGED) THEN ErrEntrySize ELSE EntrySize(FI_CQ_FORMAT_TAGGED)

FieldPos(fields, f) ==
    IF fields[1] = f THEN 1 ELSE IF fields[2] = f THEN 2 ELSE IF fields[3] = f THEN 3
    ELSE IF fields[4] = f THEN 4 ELSE IF fields[5] = f THEN 5 ELSE 6

HasField(fields, f) == \E i \in 1..Len(fields) : fields[i] = f

\* event->cqe.<shape>.<f> = v
SetField(cqe, fields, f, v) ==
    IF HasField(fields, f) THEN [cqe EXCEPT ![FieldPos(fields, f)] = v] ELSE cqe

GetField(cqe, fields, f) == cqe[FieldPos(fields, f)]

ZeroCqe == [i \in 1..CqeWords |-> 0]

\* memcpy(dst, src, n) into a zeroed area of CqeWords words
CopyWords_short(src, n) == [i \in 1..CqeWords |-> IF i < n /\ i <= Len(src) THEN src[i] ELSE 0]

CopyWords(src, n) == [i \in 1..CqeWords |-> IF i <= n /\ i <= Len(src) THEN src[i] ELSE 0]

\* memcpy(buf, &event->cqe, n)
ReadWords(cqe, n) == SubSeq(cqe, 1, n)

psmx_errno(code) ==
    CASE code = PSM_OK -> 0
      [] code = PSM_NO_MEMORY -> -12
      [] code = PSM_MQ_TRUNCATION -> -90
      [] OTHER -> -FI_EOTHER

----------------------------------------------------------------------------
(* State *)

VARIABLES
    format,             \* cq->format
    entry_size,         \* cq->entry_size
    event_queue,        \* cq->event_queue, head first
    free_list,          \* cq->free_list, head first
    pending_error,      \* cq->pending_error
    poll_am_before_mq,  \* cq->poll_am_before_mq
    psm_mq,             \* the completions psm_mq_ipeek will report, oldest first
    ep,                 \* the endpoint: bound CQs and counters, flags, in-flight counters
    mr,                 \* the memory region one-sided completions refer to
    workload,           \* the operations in flight and the results they can have
    cntr,               \* the value of each counter
    multi_recv,         \* the struct psmx_multi_recv of the one multi-recv buffer,
                        \* its state and the receive posted for it last
    next_id,            \* identity the next calloc'ed event gets
    nwrite,             \* successful writes so far
    crashed,            \* the process died of an invalid memory access
    last,               \* the last call: its arguments, return value and output
                        \* (fn: the function a call died in)
    call,               \* the call that is inside the poll loop, if one is
    opened,             \* the CQ the latest successful fi_cq_open created: <<>> or <<cq>>
    comp,               \* history: every completion the MQ made ready, in order
    enq,                \* history: every event enqueued on each CQ, in order
    got                 \* history: every event a reader obtained from each CQ

vars == <<format, entry_size, event_queue, free_list, pending_error,
          poll_am_before_mq, psm_mq, ep, mr, workload, cntr, multi_recv, next_id,
          nwrite, crashed, last, call, opened, comp, enq, got>>

\* struct psmx_cq_event: id is its address; seq and origin record which
\* completion and which code path built it
NewEvent(id) == [id |-> id, error |-> FALSE, cqe |-> ZeroCqe, seq |-> 0, origin |-> "none"]

NoEvent == NewEvent(NULL)

\* which event this is, for the histories: the code path and the completion
\* (or write) that built it, and its length field where its shape has one
Key(ev, fmt) ==
    [origin |-> ev.origin, seq |-> ev.seq, error |-> ev.error,
     len |-> IF ~ev.error /\ HasField(EntryFields(fmt), "len")
             THEN GetField(ev.cqe, EntryFields(fmt), "len") ELSE -1]

----------------------------------------------------------------------------
(* Event queue and record pool *)

psmx_cq_enqueue_event_head(ceq, event) == <<event>> \o ceq

psmx_cq_enqueue_event(ceq, event) == Append(ceq, event)

psmx_cq_dequeue_event_tail(ceq) ==
    IF ceq = <<>> THEN [event |-> NoEvent, ceq |-> ceq]
    ELSE [event |-> ceq[Len(ceq)], ceq |-> SubSeq(ceq, 1, Len(ceq) - 1)]

psmx_cq_dequeue_event_peek(ceq) ==
    IF ceq = <<>> THEN [event |-> NoEvent, ceq |-> ceq]
    ELSE [event |-> Head(ceq), ceq |-> ceq]

psmx_cq_dequeue_event(ceq) ==
    IF ceq = <<>> THEN [event |-> NoEvent, ceq |-> ceq]
    ELSE [event |-> Head(ceq), ceq |-> Tail(ceq)]

\* pop the pool's head; allocate a fresh record when the pool is empty
PSMX_FREE_LIST_GET(fl, nid) ==
    IF fl # <<>> THEN [event |-> Head(fl), fl |-> Tail(fl), nid |-> nid]
    ELSE [event |-> NewEvent(nid), fl |-> fl, nid |-> nid + 1]

\* push a record on the pool's head; its contents stay as they are
PSMX_FREE_LIST_PUT(fl, event) == <<[event EXCEPT !.seq = 0, !.origin = "none"]>> \o fl

PSMX_FREE_LIST_INIT(first, count) == [i \in 1..count |-> NewEvent(first + i - 1)]

----------------------------------------------------------------------------
(* Building events *)

psmx_cq_create_event(event, fmt, op_context, buf, flags, len, data, tag, olen, err) ==
    IF err # 0
    THEN [event EXCEPT
            !.error = TRUE,
            !.cqe = SetField(SetField(SetField(SetField(SetField(SetField(@,
                        ErrFields, "op_context", op_context),
                        ErrFields, "err", -err),
                        ErrFields, "data", data),
                        ErrFields, "tag", tag),
                        ErrFields, "olen", olen),
                        ErrFields, "prov_errno", 0)]
    ELSE [event EXCEPT
            !.error = FALSE,
            !.cqe = SetField(SetField(SetField(SetField(SetField(SetField(@,
                        EntryFields(fmt), "op_context", op_context),
                        EntryFields(fmt), "buf", buf),
                        EntryFields(fmt), "flags", flags),
                        EntryFields(fmt), "len", len),
                        EntryFields(fmt), "data", data),
                        EntryFields(fmt), "tag", tag)]

\* the op_context and buf psmx_cq_create_event_from_status derives from the context
StatusOpContext(st) ==
    IF st.context.type \in {"SEND", "RECV", "MULTI_RECV"}
    THEN st.context.ptr ELSE st.context.user

StatusBuf(st, req) ==
    CASE st.context.type \in {"SEND", "RECV"} -> st.context.user
      [] st.context.type = "MULTI_RECV" -> req.buf + req.offset
      [] OTHER -> NULL

StatusLen(st) == st.nbytes

StatusTag_zero(st) == 0

StatusTag(st) == st.msg_tag

psmx_cq_create_event_from_status(event, fmt, st, data, req) ==
    IF st.error_code # PSM_OK
    THEN LET e1 == SetField(SetField(SetField(SetField(SetField(event.cqe,
                        ErrFields, "op_context", StatusOpContext(st)),
                        ErrFields, "err", -psmx_errno(st.error_code)),
                        ErrFields, "prov_errno", st.error_code),
                        ErrFields, "tag", st.msg_tag),
                        ErrFields, "olen", st.msg_length - st.nbytes)
         IN [event EXCEPT
                !.error = TRUE,
                !.cqe = IF data # 0 THEN SetField(e1, ErrFields, "data", data) ELSE e1]
    ELSE LET e1 == SetField(SetField(SetField(SetField(event.cqe,
                        EntryFields(fmt), "op_context", StatusOpContext(st)),
                        EntryFields(fmt), "buf", StatusBuf(st, req)),
                        EntryFields(fmt), "len", StatusLen(st)),
                        EntryFields(fmt), "tag", StatusTag(st))
         IN [event EXCEPT
                !.error = FALSE,
                !.cqe = IF data # 0 THEN SetField(e1, EntryFields(fmt), "data", data) ELSE e1]

----------------------------------------------------------------------------
(* The progress driver *)

\* tmp_ep->pending_sends--; and the same for pending_writes, pending_reads
Decrement_none(n) == n

Decrement(n) == n - 1

\* if (!tmp_ep->send_cntr_event_flag) tmp_cntr = tmp_ep->send_cntr; and the
\* same for the other kinds without local completion
NoCompCntr_always(cntr_event_flag, counter) == counter

NoCompCntr(cntr_event_flag, counter) == IF ~cntr_event_flag THEN counter ELSE NULL

\* the switch on PSMX_CTXT_TYPE for the kinds an endpoint routes: the CQ and
\* the counter of the completion, whether it is a multi-recv, and the
\* endpoint with its in-flight counter decremented
ContextRoute(type, e) ==
    CASE type = "NOCOMP_SEND" \/ type = "INJECT" ->
            [cq |-> NULL,
             cntr |-> NoCompCntr(e.send_cntr_event_flag, e.send_cntr),
             multi_recv |-> FALSE,
             ep |-> [e EXCEPT !.pending_sends = Decrement(@)]]
      [] type = "NOCOMP_RECV" ->
            [cq |-> NULL,
             cntr |-> NoCompCntr(e.recv_cntr_event_flag, e.recv_cntr),
             multi_recv |-> FALSE,
             ep |-> e]
      [] type = "NOCOMP_WRITE" \/ type = "INJECT_WRITE" ->
            [cq |-> NULL,
             cntr |-> NoCompCntr(e.write_cntr_event_flag, e.write_cntr),
             multi_recv |-> FALSE,
             ep |-> [e EXCEPT !.pending_writes = Decrement(@)]]
      [] type = "NOCOMP_READ" ->
            [cq |-> NULL,
             cntr |-> NoCompCntr(e.read_cntr_event_flag, e.read_cntr),
             multi_recv |-> FALSE,
             ep |-> [e EXCEPT !.pending_reads = Decrement(@)]]
      [] type = "SEND" ->
            [cq |-> e.send_cq, cntr |-> e.send_cntr, multi_recv |-> FALSE,
             ep |-> [e EXCEPT !.pending_sends = Decrement(@)]]
      [] type = "RECV" ->
            [cq |-> e.recv_cq, cntr |-> e.recv_cntr, multi_recv |-> FALSE, ep |-> e]
      [] type = "MULTI_RECV" ->
            [cq |-> e.recv_cq, cntr |-> e.recv_cntr, multi_recv |-> TRUE, ep |-> e]
      [] type = "READ" ->
            [cq |-> e.send_cq, cntr |-> e.read_cntr, multi_recv |-> FALSE,
             ep |-> [e EXCEPT !.pending_reads = Decrement(@)]]
      [] type = "WRITE" ->
            [cq |-> e.send_cq, cntr |-> e.write_cntr, multi_recv |-> FALSE,
             ep |-> [e EXCEPT !.pending_writes = Decrement(@)]]

\* event = psmx_cq_create_event_from_status(c, &psm_status, data);
\* psmx_cq_enqueue_event(&c->event_queue, event);
EnqueueFromStatus(s, c, st, data) ==
    LET g == PSMX_FREE_LIST_GET(s.fl[c], s.nid)
        ev == [psmx_cq_create_event_from_status(g.event, format[c], st, data, s.req)
                 EXCEPT !.seq = st.seq, !.origin = "status"]
    IN [s EXCEPT !.fl[c] = g.fl, !.nid = g.nid,
                 !.eq[c] = psmx_cq_enqueue_event(@, ev),
                 !.enq[c] = Append(@, Key(ev, format[c]))]

\* the final FI_MULTI_RECV event of a used-up multi-recv buffer
EnqueueMultiRecvDone(s, c, st) ==
    LET g == PSMX_FREE_LIST_GET(s.fl[c], s.nid)
        ev == [psmx_cq_create_event(g.event, format[c], s.req.context, s.req.buf,
                   FI_MULTI_RECV, s.req.len, s.req.len - s.req.offset, 0, 0, 0)
                 EXCEPT !.seq = st.seq, !.origin = "multi"]
    IN [s EXCEPT !.fl[c] = g.fl, !.nid = g.nid,
                 !.eq[c] = psmx_cq_enqueue_event(@, ev),
                 !.enq[c] = Append(@, Key(ev, format[c]))]

\* req->offset + req->min_buf_size <= req->len: the buffer can take another chunk
MultiRecvRearm_lt(req) == req.offset + req.min_buf_size < req.len

MultiRecvRearm(req) == req.offset + req.min_buf_size <= req.len

\* the receive psm_mq_irecv(mq, tag, tagsel, flags, buf, len, context, &req) posts
psm_mq_irecv_any_tag(tag, tagsel, flags, buf, len, context) ==
    [tag |-> tag, tagsel |-> 0, flags |-> flags, buf |-> buf, len |-> len,
     context |-> context]

psm_mq_irecv(tag, tagsel, flags, buf, len, context) ==
    [tag |-> tag, tagsel |-> tagsel, flags |-> flags, buf |-> buf, len |-> len,
     context |-> context]

\* free(req): no receive is posted for the buffer any more
FreeReq_keep(req) == [req EXCEPT !.state = "posted"]

FreeReq(req) == [req EXCEPT !.state = "freed"]

\* the if (multi_recv) block; o.irecv is what psm_mq_irecv returns
MultiRecvStep(s, c, st, o) ==
    LET s1 == [s EXCEPT !.req.offset = @ + st.nbytes]
        req == s1.req
    IN IF MultiRecvRearm(req)
       THEN IF o.irecv # PSM_OK
            THEN [s1 EXCEPT !.req.state = "unposted", !.err = o.irecv]
            ELSE [s1 EXCEPT !.req.state = "posted",
                            !.req.posted = psm_mq_irecv(req.tag, req.tagsel, req.flag,
                                               req.buf + req.offset,
                                               req.len - req.offset, st.context.ptr)]
       ELSE LET s2 == IF c # NULL THEN EnqueueMultiRecvDone(s1, c, st) ELSE s1
            IN [s2 EXCEPT !.req = FreeReq(@)]

\* tmp_cntr->cntr.ops->add(&tmp_cntr->cntr, 1)
CntrAdd_twice(counters, x) == [counters EXCEPT ![x] = @ + 2]

CntrAdd(counters, x) == [counters EXCEPT ![x] = @ + 1]

\* if (!cq || tmp_cq == cq) return 1;
PollReturns_any(cq, tmp_cq) == TRUE

PollReturns_never(cq, tmp_cq) == FALSE

PollReturns(cq, tmp_cq) == cq = NULL \/ tmp_cq = cq

\* else if (err == PSM_MQ_NO_COMPLETIONS) return 0; else return psmx_errno(err);
\* every result of psm_mq_ipeek other than PSM_OK ends the loop
PeekErrorReturns_spin(err) == err # PSM_MQ_NO_COMPLETIONS

PeekErrorReturns(err) == err # PSM_OK

\* one pass through the body of while (1): s.running tells whether the loop
\* goes round again
PollLoopBody(cq, s, o) ==
    IF o.peek_fails_at = s.peeks + 1
    THEN [s EXCEPT !.peeks = @ + 1, !.err = PSM_INTERNAL_ERR,
                   !.ret = psmx_errno(PSM_INTERNAL_ERR),
                   !.running = ~PeekErrorReturns(PSM_INTERNAL_ERR)]
    ELSE IF s.mq = <<>>
    THEN [s EXCEPT !.peeks = @ + 1, !.err = PSM_MQ_NO_COMPLETIONS, !.ret = 0,
                   !.running = ~PeekErrorReturns(PSM_MQ_NO_COMPLETIONS)]
    ELSE
      LET st == Head(s.mq)
          type == st.context.type
          s0 == [s EXCEPT !.mq = Tail(@), !.peeks = @ + 1]
      IN IF type \in RemoteKinds
         THEN LET data == IF type = "REMOTE_WRITE" THEN st.context.data ELSE 0
                  s1 == IF mr.cq # NULL THEN EnqueueFromStatus(s0, mr.cq, st, data) ELSE s0
              IN IF mr.cntr # NULL /\ o.ub = "crash"
                 THEN [s1 EXCEPT !.crashed = TRUE, !.running = FALSE]
                 ELSE IF PollReturns(cq, mr.cq)
                      THEN [s1 EXCEPT !.ret = 1, !.running = FALSE]
                      ELSE s1
         ELSE LET r == ContextRoute(type, s0.ep)
                  s1 == [s0 EXCEPT !.ep = r.ep]
                  s2 == IF r.cq # NULL THEN EnqueueFromStatus(s1, r.cq, st, 0) ELSE s1
                  s3 == IF r.cntr # NULL THEN [s2 EXCEPT !.cntr = CntrAdd(@, r.cntr)] ELSE s2
                  s4 == IF r.multi_recv THEN MultiRecvStep(s3, r.cq, st, o) ELSE s3
              IN IF s4.err # PSM_OK
                 THEN [s4 EXCEPT !.ret = psmx_errno(s4.err), !.running = FALSE]
                 ELSE IF PollReturns(cq, r.cq)
                      THEN [s4 EXCEPT !.ret = 1, !.running = FALSE]
                      ELSE s4

\* psmx_cq_poll_mq(cq, domain): the loop, run until it returns
RECURSIVE psmx_cq_poll_mq(_, _, _)
psmx_cq_poll_mq(cq, s, o) ==
    LET s1 == PollLoopBody(cq, s, o)
    IN IF s1.running THEN psmx_cq_poll_mq(cq, s1, o) ELSE s1

\* what psmx_cq_poll_mq reads and writes, as one record
PollState ==
    [mq |-> psm_mq, eq |-> event_queue, fl |-> free_list, cntr |-> cntr, ep |-> ep,
     req |-> multi_recv, nid |-> next_id, enq |-> enq, crashed |-> FALSE,
     err |-> PSM_OK, ret |-> 0, peeks |-> 0, running |-> TRUE]

\* what the callee of a failing external call may return, and what the
\* add() on the null counter of a one-sided completion may do; peek_fails_at
\* is the call of psm_mq_ipeek, counted within one progress call, that
\* reports a failure (0: none does)
Oracles(cq) ==
    [peek_fails_at : IF cq # NULL /\ psm_mq # <<>> THEN {0, 1, 2} ELSE {0, 1},
     irecv : IF \E i \in 1..Len(psm_mq) : psm_mq[i].context.type = "MULTI_RECV"
             THEN {PSM_OK, PSM_NO_MEMORY} ELSE {PSM_OK},
     ub : IF mr.cntr # NULL /\ \E i \in 1..Len(psm_mq) : psm_mq[i].context.type \in RemoteKinds
          THEN {"crash", "none"} ELSE {"none"}]

----------------------------------------------------------------------------
(* Initial state: two CQs opened with the same format, one endpoint and one
   memory region bound in one of a few ways, one multi-recv buffer posted *)

\* the three ways the endpoint and the memory region are bound
BindAll ==      \* everything reports to CQ 1, every counter bound
    [send_cq |-> 1, recv_cq |-> 1, send_cntr |-> 1, recv_cntr |-> 2,
     write_cntr |-> 3, read_cntr |-> 4, flag |-> FALSE, mr_cq |-> 1, mr_cntr |-> 5]

BindSplit ==    \* sends and receives on different CQs, counter events suppressed
    [send_cq |-> 1, recv_cq |-> 2, send_cntr |-> 1, recv_cntr |-> 2,
     write_cntr |-> 3, read_cntr |-> 4, flag |-> TRUE, mr_cq |-> 2, mr_cntr |-> NULL]

BindCntr ==     \* the send side and the memory region report to counters only
    [send_cq |-> NULL, recv_cq |-> 1, send_cntr |-> 1, recv_cntr |-> NULL,
     write_cntr |-> 3, read_cntr |-> 4, flag |-> FALSE, mr_cq |-> NULL, mr_cntr |-> 5]

Op(kind, err, nb) == [kind |-> kind, err |-> err, nb |-> nb]

\* a run: the formats the two CQs were opened with, the bindings, and the
\* operations in flight, each given with the result the transport may report
Scenarios ==
    { [formats |-> <<FI_CQ_FORMAT_TAGGED, FI_CQ_FORMAT_CONTEXT>>, bind |-> BindAll,
       workload |-> {Op("SEND", PSM_OK, 2), Op("SEND", PSM_MQ_TRUNCATION, 1),
                     Op("MULTI_RECV", PSM_OK, 1), Op("MULTI_RECV", PSM_OK, 2)}],
      [formats |-> <<FI_CQ_FORMAT_MSG, FI_CQ_FORMAT_DATA>>, bind |-> BindAll,
       workload |-> {Op("WRITE", PSM_OK, 1), Op("READ", PSM_OK, 2),
                     Op("REMOTE_WRITE", PSM_OK, 1), Op("REMOTE_READ", PSM_OK, 1)}],
      [formats |-> <<FI_CQ_FORMAT_DATA, FI_CQ_FORMAT_TAGGED>>, bind |-> BindSplit,
       workload |-> {Op("SEND", PSM_OK, 1), Op("MULTI_RECV", PSM_OK, 2),
                     Op("REMOTE_WRITE", PSM_OK, 2), Op("NOCOMP_SEND", PSM_OK, 1)}],
      [formats |-> <<FI_CQ_FORMAT_CONTEXT, FI_CQ_FORMAT_MSG>>, bind |-> BindCntr,
       workload |-> {Op("SEND", PSM_OK, 1), Op("RECV", PSM_OK, 2),
                     Op("REMOTE_READ", PSM_OK, 1), Op("NOCOMP_RECV", PSM_OK, 1)}],
      [formats |-> <<FI_CQ_FORMAT_DATA, FI_CQ_FORMAT_MSG>>, bind |-> BindAll,
       workload |-> {Op("NOCOMP_SEND", PSM_OK, 1), Op("NOCOMP_WRITE", PSM_OK, 1),
                     Op("NOCOMP_READ", PSM_OK, 1), Op("INJECT_WRITE", PSM_OK, 1)}],
      [formats |-> <<FI_CQ_FORMAT_TAGGED, FI_CQ_FORMAT_MSG>>, bind |-> BindAll,
       workload |-> {Op("INJECT", PSM_OK, 1), Op("RECV", PSM_OK, 1),
                     Op("RECV", PSM_MQ_TRUNCATION, 1),
                     Op("MULTI_RECV", PSM_MQ_TRUNCATION, 1)}] }

Counters == 1..5

InitEp(b) ==
    [send_cq |-> b.send_cq, recv_cq |-> b.recv_cq,
     send_cntr |-> b.send_cntr, recv_cntr |-> b.recv_cntr,
     write_cntr |-> b.write_cntr, read_cntr |-> b.read_cntr,
     send_cntr_event_flag |-> b.flag, recv_cntr_event_flag |-> b.flag,
     write_cntr_event_flag |-> b.flag, read_cntr_event_flag |-> b.flag,
     pending_sends |-> 0, pending_writes |-> 0, pending_reads |-> 0]

NoCall == [op |-> "none", cq |-> NULL, len |-> 0, buf |-> NULL, ret |-> 0,
           bytes |-> <<>>, ran |-> <<>>, err |-> PSM_OK, arg |-> <<>>, fn |-> "none"]

\* no call is inside the poll loop; passes counts the passes a call has made
\* through it that went round again
NoLoop == [op |-> "none", cq |-> NULL, len |-> 0, buf |-> NULL, passes |-> 0]

Init ==
    /\ \E sc \in Scenarios :
          /\ format = [c \in CQs |-> sc.formats[c]]
          /\ entry_size = [c \in CQs |-> EntrySize(sc.formats[c])]
          /\ ep = InitEp(sc.bind)
          /\ mr = [cq |-> sc.bind.mr_cq, cntr |-> sc.bind.mr_cntr]
          /\ workload = sc.workload
    /\ event_queue = [c \in CQs |-> <<>>]
    /\ free_list = [c \in CQs |-> PSMX_FREE_LIST_INIT((c - 1) * PoolCount + 1, PoolCount)]
    /\ next_id = 2 * PoolCount + 1
    /\ pending_error = [c \in CQs |-> NoEvent]
    /\ poll_am_before_mq = [c \in CQs |-> FALSE]
    /\ psm_mq = <<>>
    /\ cntr = [x \in Counters |-> 0]
    /\ multi_recv = [offset |-> 0, len |-> MultiLen, min_buf_size |-> MultiMin,
                     buf |-> 400, context |-> 300, tag |-> 7, tagsel |-> 15,
                     flag |-> 1, state |-> "posted",
                     posted |-> psm_mq_irecv(7, 15, 1, 400, MultiLen, 100)]
    /\ nwrite = 0
    /\ crashed = FALSE
    /\ last = NoCall
    /\ call = NoLoop
    /\ opened = <<>>
    /\ comp = <<>>
    /\ enq = [c \in CQs |-> <<>>]
    /\ got = [c \in CQs |-> <<>>]

----------------------------------------------------------------------------
(* The transport: an operation posted earlier completes and becomes ready *)

Complete(kind, err, nb) ==
    /\ ~crashed
    /\ Op(kind, err, nb) \in workload
    /\ Len(comp) + nwrite < MaxOps
    /\ kind = "MULTI_RECV" =>
          /\ multi_recv.state = "posted"
          /\ nb <= multi_recv.len - multi_recv.offset
    /\ LET seq == Len(comp) + 1
           st == [error_code |-> err, nbytes |-> nb,
                  msg_length |-> IF err = PSM_OK THEN nb ELSE nb + 1,
                  msg_tag |-> 10 + seq, seq |-> seq,
                  context |-> [ptr |-> IF kind = "MULTI_RECV" THEN 100 ELSE 100 + seq,
                               type |-> kind,
                               user |-> IF kind = "MULTI_RECV" THEN 500 ELSE 200 + seq,
                               data |-> 50 + seq]]
       IN /\ psm_mq' = Append(psm_mq, st)
          /\ comp' = Append(comp, st)
    /\ ep' = [ep EXCEPT
                !.pending_sends = IF kind \in SendKinds THEN @ + 1 ELSE @,
                !.pending_writes = IF kind \in WriteKinds THEN @ + 1 ELSE @,
                !.pending_reads = IF kind \in ReadKinds THEN @ + 1 ELSE @]
    /\ multi_recv' = IF kind = "MULTI_RECV" THEN [multi_recv EXCEPT !.state = "ready"]
                     ELSE multi_recv
    /\ last' = [NoCall EXCEPT !.op = "complete"]
    /\ UNCHANGED <<opened, format, entry_size, event_queue, free_list, pending_error,
                   poll_am_before_mq, mr, workload, cntr, next_id, nwrite, crashed, call,
                   enq, got>>

----------------------------------------------------------------------------
(* Calls *)

\* the variables psmx_cq_poll_mq leaves in state s
PollEffect(s) ==
    /\ psm_mq' = s.mq
    /\ cntr' = s.cntr
    /\ ep' = s.ep
    /\ multi_recv' = s.req
    /\ enq' = s.enq
    /\ crashed' = s.crashed

\* an explicit progress call: psmx_cq_poll_mq(cq, domain), cq possibly NULL
Progress(cq, o) ==
    /\ ~crashed
    /\ \E s \in {psmx_cq_poll_mq(cq, PollState, o)} :
          /\ PollEffect(s)
          /\ event_queue' = s.eq
          /\ free_list' = s.fl
          /\ next_id' = s.nid
          /\ last' = IF s.crashed
                     THEN [NoCall EXCEPT !.op = "crash", !.cq = cq,
                                         !.fn = "psmx_cq_poll_mq"]
                     ELSE [NoCall EXCEPT !.op = "poll", !.cq = cq, !.ret = s.ret,
                                         !.err = s.err]
    /\ UNCHANGED <<opened, format, entry_size, pending_error, poll_am_before_mq, mr, workload,
                   nwrite, call, comp, got>>

\* the checks of psmx_cq_readfrom before it dequeues: 0 when they pass
ReadChecks_size_first(pe, len, es, buf) ==
    IF len < es THEN -FI_ETOOSMALL
    ELSE IF pe # NoEvent THEN -FI_EAVAIL
    ELSE IF buf = NULL THEN -FI_EINVAL
    ELSE 0

ReadChecks_no_eavail(pe, len, es, buf) ==
    IF len < es THEN -FI_ETOOSMALL
    ELSE IF buf = NULL THEN -FI_EINVAL
    ELSE 0

ReadChecks_null_first(pe, len, es, buf) ==
    IF pe # NoEvent THEN -FI_EAVAIL
    ELSE IF buf = NULL THEN -FI_EINVAL
    ELSE IF len < es THEN -FI_ETOOSMALL
    ELSE 0

ReadChecks(pe, len, es, buf) ==
    IF pe # NoEvent THEN -FI_EAVAIL
    ELSE IF len < es THEN -FI_ETOOSMALL
    ELSE IF buf = NULL THEN -FI_EINVAL
    ELSE 0

\* psmx_cq_readfrom after progress: the return value, the bytes copied out,
\* and the queue, pool and pending error it leaves
ReadDequeue_leak(c, ceq, fl, pe, len, buf) ==
    LET chk == ReadChecks(pe, len, entry_size[c], buf)
        d == psmx_cq_dequeue_event(ceq)
    IN IF chk # 0
       THEN [ret |-> chk, bytes |-> <<>>, eq |-> ceq, fl |-> fl, pe |-> pe, ev |-> NoEvent]
       ELSE IF d.event = NoEvent
       THEN [ret |-> 0, bytes |-> <<>>, eq |-> ceq, fl |-> fl, pe |-> pe, ev |-> NoEvent]
       ELSE IF ~d.event.error
       THEN [ret |-> entry_size[c], bytes |-> ReadWords(d.event.cqe, entry_size[c]),
             eq |-> d.ceq, fl |-> fl, pe |-> pe, ev |-> d.event]
       ELSE [ret |-> -FI_EAVAIL, bytes |-> <<>>, eq |-> d.ceq, fl |-> fl,
             pe |-> d.event, ev |-> NoEvent]

ReadDequeue_drop_error(c, ceq, fl, pe, len, buf) ==
    LET chk == ReadChecks(pe, len, entry_size[c], buf)
        d == psmx_cq_dequeue_event(ceq)
    IN IF chk # 0
       THEN [ret |-> chk, bytes |-> <<>>, eq |-> ceq, fl |-> fl, pe |-> pe, ev |-> NoEvent]
       ELSE IF d.event = NoEvent
       THEN [ret |-> 0, bytes |-> <<>>, eq |-> ceq, fl |-> fl, pe |-> pe, ev |-> NoEvent]
       ELSE IF ~d.event.error
       THEN [ret |-> entry_size[c], bytes |-> ReadWords(d.event.cqe, entry_size[c]),
             eq |-> d.ceq, fl |-> PSMX_FREE_LIST_PUT(fl, d.event), pe |-> pe,
             ev |-> d.event]
       ELSE [ret |-> -FI_EAVAIL, bytes |-> <<>>, eq |-> d.ceq, fl |-> fl,
             pe |-> pe, ev |-> NoEvent]

ReadDequeue(c, ceq, fl, pe, len, buf) ==
    LET chk == ReadChecks(pe, len, entry_size[c], buf)
        d == psmx_cq_dequeue_event(ceq)
    IN IF chk # 0
       THEN [ret |-> chk, bytes |-> <<>>, eq |-> ceq, fl |-> fl, pe |-> pe, ev |-> NoEvent]
       ELSE IF d.event = NoEvent
       THEN [ret |-> 0, bytes |-> <<>>, eq |-> ceq, fl |-> fl, pe |-> pe, ev |-> NoEvent]
       ELSE IF ~d.event.error
       THEN [ret |-> entry_size[c], bytes |-> ReadWords(d.event.cqe, entry_size[c]),
             eq |-> d.ceq, fl |-> PSMX_FREE_LIST_PUT(fl, d.event), pe |-> pe,
             ev |-> d.event]
       ELSE [ret |-> -FI_EAVAIL, bytes |-> <<>>, eq |-> d.ceq, fl |-> fl,
             pe |-> d.event, ev |-> NoEvent]

\* the progress calls of psmx_cq_readfrom, in the order it makes them, given
\* the flag it has just flipped
ProgressOrder_am_first(flag) == <<"am", "mq">>

ProgressOrder(flag) ==
    (IF flag THEN <<"am">> ELSE <<>>) \o <<"mq">> \o (IF ~flag THEN <<"am">> ELSE <<>>)

\* a caller's buffer: any address that is not NULL
UserBuf == NULL + 1

\* the buffers and capacities read is called with on a CQ of entry size es
ReadArgs(es) == {[len |-> es, buf |-> UserBuf], [len |-> es - 1, buf |-> UserBuf],
                 [len |-> es, buf |-> NULL]}

\* psmx_cq_readfrom once progress has been made, in state s: the checks, the
\* dequeue, the copy
ReadReturn(c, s, a) ==
    \E r \in {ReadDequeue(c, s.eq[c], s.fl[c], pending_error[c], a.len, a.buf)} :
       /\ event_queue' = [s.eq EXCEPT ![c] = r.eq]
       /\ free_list' = [s.fl EXCEPT ![c] = r.fl]
       /\ pending_error' = [pending_error EXCEPT ![c] = r.pe]
       /\ got' = IF r.ev # NoEvent
                 THEN [got EXCEPT ![c] = Append(@, Key(r.ev, format[c]))]
                 ELSE got
       /\ last' = [op |-> "read", cq |-> c, len |-> a.len, buf |-> a.buf,
                   ret |-> r.ret, bytes |-> r.bytes,
                   ran |-> ProgressOrder(poll_am_before_mq'[c]),
                   err |-> PSM_OK, arg |-> <<>>, fn |-> "none"]

\* a call died inside psmx_cq_poll_mq, in state s
Died(cq, s) ==
    /\ event_queue' = s.eq
    /\ free_list' = s.fl
    /\ UNCHANGED <<pending_error, got>>
    /\ last' = [NoCall EXCEPT !.op = "crash", !.cq = cq, !.fn = "psmx_cq_poll_mq"]

\* fi_cq_read / fi_cq_readfrom(cq, buf, len, NULL), for every buf and len of
\* args
ReadWith(c, o, args) ==
    /\ ~crashed
    /\ \E s \in {psmx_cq_poll_mq(c, PollState, o)} :
       \E a \in args :
          /\ PollEffect(s)
          /\ next_id' = s.nid
          /\ poll_am_before_mq' = [poll_am_before_mq EXCEPT ![c] = ~@]
          /\ IF s.crashed THEN Died(c, s) ELSE ReadReturn(c, s, a)
    /\ UNCHANGED <<opened, format, entry_size, mr, workload, nwrite, call, comp>>

Read(c, o) == ReadWith(c, o, ReadArgs(entry_size[c]))

\* psmx_cq_readerr: the return value, the bytes copied out, the pending error left
ReadErrResult_keep(pe, len) ==
    IF len < ErrEntrySize THEN [ret |-> -FI_ETOOSMALL, bytes |-> <<>>, pe |-> pe]
    ELSE IF pe # NoEvent
    THEN [ret |-> ErrEntrySize, bytes |-> ReadWords(pe.cqe, ErrEntrySize), pe |-> pe]
    ELSE [ret |-> 0, bytes |-> <<>>, pe |-> pe]

ReadErrResult_clear_short(pe, len) ==
    IF len < ErrEntrySize THEN [ret |-> -FI_ETOOSMALL, bytes |-> <<>>, pe |-> NoEvent]
    ELSE IF pe # NoEvent
    THEN [ret |-> ErrEntrySize, bytes |-> ReadWords(pe.cqe, ErrEntrySize), pe |-> NoEvent]
    ELSE [ret |-> 0, bytes |-> <<>>, pe |-> pe]

ReadErrResult(pe, len) ==
    IF len < ErrEntrySize THEN [ret |-> -FI_ETOOSMALL, bytes |-> <<>>, pe |-> pe]
    ELSE IF pe # NoEvent
    THEN [ret |-> ErrEntrySize, bytes |-> ReadWords(pe.cqe, ErrEntrySize), pe |-> NoEvent]
    ELSE [ret |-> 0, bytes |-> <<>>, pe |-> pe]

\* fi_cq_readerr(cq, buf, len, flags)
ReadErr(c, len) ==
    /\ ~crashed
    /\ \E r \in {ReadErrResult(pending_error[c], len)} :
          /\ pending_error' = [pending_error EXCEPT ![c] = r.pe]
          /\ got' = IF r.ret > 0
                    THEN [got EXCEPT ![c] = Append(@, Key(pending_error[c], format[c]))]
                    ELSE got
          /\ last' = [NoCall EXCEPT !.op = "readerr", !.cq = c, !.len = len,
                                    !.ret = r.ret, !.bytes = r.bytes]
    /\ UNCHANGED <<opened, format, entry_size, event_queue, free_list, poll_am_before_mq,
                   psm_mq, ep, mr, workload, cntr, multi_recv, next_id, nwrite, crashed, call,
                   comp, enq>>

\* the caller's buffer of the k-th write: len words, different for each write
WriteBuf(k, len) == [i \in 1..len |-> 70 + 10 * k + i]

\* the event psmx_cq_write builds: calloc, then memcpy of entry_size bytes
WriteEvent_malloc(id, wbuf, es) == [NewEvent(id) EXCEPT !.cqe = CopyWords(wbuf, es), !.error = TRUE]

WriteEvent(id, wbuf, es) == [NewEvent(id) EXCEPT !.cqe = CopyWords(wbuf, es)]

\* fi_cq_write(cq, buf, len)
Write(c, len) ==
    /\ ~crashed
    /\ LET wbuf == WriteBuf(nwrite + 1, len)
           ev == [WriteEvent(next_id, wbuf, entry_size[c])
                    EXCEPT !.seq = nwrite + 1, !.origin = "write"]
       IN IF len < entry_size[c]
          THEN /\ last' = [NoCall EXCEPT !.op = "write", !.cq = c, !.len = len,
                                         !.ret = -FI_ETOOSMALL, !.bytes = wbuf]
               /\ UNCHANGED <<event_queue, next_id, nwrite, enq>>
          ELSE /\ Len(comp) + nwrite < MaxOps
               /\ event_queue' = [event_queue EXCEPT ![c] = psmx_cq_enqueue_event(@, ev)]
               /\ enq' = [enq EXCEPT ![c] = Append(@, Key(ev, format[c]))]
               /\ next_id' = next_id + 1
               /\ nwrite' = nwrite + 1
               /\ last' = [NoCall EXCEPT !.op = "write", !.cq = c, !.len = len,
                                         !.ret = entry_size[c], !.bytes = wbuf]
    /\ UNCHANGED <<opened, format, entry_size, free_list, pending_error, poll_am_before_mq,
                   psm_mq, ep, mr, workload, cntr, multi_recv, crashed, call, comp, got>>

----------------------------------------------------------------------------
(* Specification *)

\* the CQ the application reads, reads errors from and writes to; the other
\* CQ only receives events
Readers == {1}

Next ==
    \/ \E x \in workload : Complete(x.kind, x.err, x.nb)
    \/ \E cq \in CQs \cup {NULL} : \E o \in Oracles(cq) : Progress(cq, o)
    \/ \E c \in Readers : \E o \in Oracles(NULL) : Read(c, o)
    \/ \E c \in Readers, d \in {0, 1} : ReadErr(c, ErrEntrySize - d)
    \/ \E c \in Readers, d \in {0, 1} : Write(c, entry_size[c] - d)

Spec == Init /\ [][Next]_vars

----------------------------------------------------------------------------
(* The same calls with the poll loop taken one pass at a time, while the
   transport goes on making completions ready *)

\* a call of psmx_cq_poll_mq(cq, domain) enters the loop
PollBegin(cq) ==
    /\ ~crashed
    /\ call.op = "none"
    /\ call' = [NoLoop EXCEPT !.op = "poll", !.cq = cq]
    /\ last' = [NoCall EXCEPT !.op = "enter", !.cq = cq]
    /\ UNCHANGED <<opened, format, entry_size, event_queue, free_list, pending_error,
                   poll_am_before_mq, psm_mq, ep, mr, workload, cntr, multi_recv,
                   next_id, nwrite, crashed, comp, enq, got>>

\* a call of read flips the flag and enters the loop
ReadBegin(c, a) ==
    /\ ~crashed
    /\ call.op = "none"
    /\ poll_am_before_mq' = [poll_am_before_mq EXCEPT ![c] = ~@]
    /\ call' = [NoLoop EXCEPT !.op = "read", !.cq = c, !.len = a.len, !.buf = a.buf]
    /\ last' = [NoCall EXCEPT !.op = "enter", !.cq = c]
    /\ UNCHANGED <<opened, format, entry_size, event_queue, free_list, pending_error,
                   psm_mq, ep, mr, workload, cntr, multi_recv, next_id, nwrite,
                   crashed, comp, enq, got>>

\* one pass through the loop; when the loop returns, the call does: a
\* progress call with the loop's value, a read after its checks and dequeue
PollStep(o) ==
    /\ ~crashed
    /\ call.op # "none"
    /\ UNCHANGED <<opened, format, entry_size, poll_am_before_mq, mr, workload, nwrite, comp>>
    /\ \E s \in {PollLoopBody(call.cq, PollState, o)} :
          /\ PollEffect(s)
          /\ next_id' = s.nid
          /\ IF s.crashed
             THEN Died(call.cq, s) /\ call' = NoLoop
             ELSE IF s.running
             THEN /\ event_queue' = s.eq
                  /\ free_list' = s.fl
                  /\ last' = [NoCall EXCEPT !.op = "loop", !.cq = call.cq]
                  /\ call' = [call EXCEPT !.passes = @ + 1]
                  /\ UNCHANGED <<pending_error, got>>
             ELSE IF call.op = "poll"
             THEN /\ event_queue' = s.eq
                  /\ free_list' = s.fl
                  /\ last' = [NoCall EXCEPT !.op = "poll", !.cq = call.cq,
                                            !.ret = s.ret, !.err = s.err]
                  /\ call' = NoLoop
                  /\ UNCHANGED <<pending_error, got>>
             ELSE ReadReturn(call.cq, s, call) /\ call' = NoLoop

\* fi_cq_sread / fi_cq_sreadfrom
Sread_toggle(c) ==
    /\ ~crashed
    /\ call.op = "none"
    /\ poll_am_before_mq' = [poll_am_before_mq EXCEPT ![c] = ~@]
    /\ last' = [NoCall EXCEPT !.op = "sread", !.cq = c, !.ret = -FI_ENOSYS]
    /\ UNCHANGED <<opened, format, entry_size, event_queue, free_list, pending_error,
                   psm_mq, ep, mr, workload, cntr, multi_recv, next_id, nwrite,
                   crashed, call, comp, enq, got>>

Sread(c) ==
    /\ ~crashed
    /\ call.op = "none"
    /\ last' = [NoCall EXCEPT !.op = "sread", !.cq = c, !.ret = -FI_ENOSYS]
    /\ UNCHANGED <<opened, format, entry_size, event_queue, free_list, pending_error,
                   poll_am_before_mq, psm_mq, ep, mr, workload, cntr, multi_recv,
                   next_id, nwrite, crashed, call, comp, enq, got>>

NextLoop ==
    \/ \E x \in workload : Complete(x.kind, x.err, x.nb)
    \/ \E cq \in CQs \cup {NULL} : PollBegin(cq)
    \/ \E c \in Readers : ReadBegin(c, [len |-> entry_size[c], buf |-> UserBuf])
    \/ \E o \in Oracles(NULL) : PollStep(o)
    \/ \E c \in Readers : call.op = "none" /\ ReadErr(c, ErrEntrySize)
    \/ \E c \in Readers : call.op = "none" /\ Write(c, entry_size[c])
    \/ \E c \in Readers : Sread(c)

\* psm_mq_ipeek reports a failure
PeekFailure == [peek_fails_at |-> 1, irecv |-> PSM_OK, ub |-> "none"]

\* the next pass of the call that is inside the loop, whatever its outcome
\* (the pass with the failing peek, one of them, stands first: it is the one
\* whose enabledness is decided without handling a completion)
LoopPass ==
    \/ PollStep(PeekFailure)
    \/ \E o \in Oracles(NULL) : PollStep(o)

\* the thread that is inside the loop keeps running
SpecLoop == Init /\ [][NextLoop]_vars /\ WF_vars(LoopPass)

----------------------------------------------------------------------------
(* Opening a CQ and asking it for its wait object *)

\* what a wait descriptor is initialised from: the caller's wait set, the
\* descriptors pipe() hands out, and the mutex and condition initialised
WaitSetFid == NULL + 7
PipeFds == <<3, 4>>
MutexCond == <<"mutex", "cond">>

\* a pointer to a wait descriptor or to a CQ is the sequence of what it
\* points to: empty when null
NoWait == <<>>

\* struct psmx_wait after calloc
NewWait == [type |-> 0, cond |-> 0, wait_set |-> NULL, fd |-> <<0, 0>>,
            mutex_cond |-> <<>>]

\* psmx_cq_init_wait(wait, attr); o.fail = "pipe" when pipe() fails,
\* leaving o.errno in errno
psmx_cq_init_wait(wait, attr, o) ==
    LET w == [wait EXCEPT !.type = attr.wait_obj, !.cond = attr.wait_cond]
    IN CASE attr.wait_obj = FI_WAIT_SET ->
               [err |-> 0, wait |-> [w EXCEPT !.wait_set = attr.wait_set]]
         [] attr.wait_obj = FI_WAIT_FD ->
               IF o.fail = "pipe" THEN [err |-> -o.errno, wait |-> w]
               ELSE [err |-> 0, wait |-> [w EXCEPT !.fd = PipeFds]]
         [] attr.wait_obj = FI_WAIT_MUT_COND ->
               [err |-> 0, wait |-> [w EXCEPT !.mutex_cond = MutexCond]]
         [] OTHER -> [err |-> 0, wait |-> w]

\* the inner switch of psmx_cq_open on attr->wait_cond
WaitCondValid_any(cond) == TRUE

WaitCondValid(cond) == cond \in {FI_CQ_COND_NONE, FI_CQ_COND_THRESHOLD}

\* the switch of psmx_cq_open on attr->wait_obj: the error it returns, or 0
\* and the wait pointer; o.fail = "wait" when the calloc of the descriptor
\* fails
OpenWait(attr, o) ==
    IF attr.wait_obj = FI_WAIT_NONE THEN [err |-> 0, wait |-> NoWait]
    ELSE IF attr.wait_obj \notin {FI_WAIT_SET, FI_WAIT_UNSPECIFIED, FI_WAIT_FD,
                                  FI_WAIT_MUT_COND}
    THEN [err |-> -FI_EINVAL, wait |-> NoWait]
    ELSE IF attr.wait_obj = FI_WAIT_SET /\ attr.wait_set = NULL
    THEN [err |-> -FI_EINVAL, wait |-> NoWait]
    ELSE IF ~WaitCondValid(attr.wait_cond) THEN [err |-> -FI_EINVAL, wait |-> NoWait]
    ELSE IF o.fail = "wait" THEN [err |-> -FI_ENOMEM, wait |-> NoWait]
    ELSE LET r == psmx_cq_init_wait(NewWait, attr, o)
         IN IF r.err # 0 THEN [err |-> r.err, wait |-> NoWait]
            ELSE [err |-> 0, wait |-> <<r.wait>>]

\* case FI_CQ_FORMAT_UNSPEC: attr->format = FI_CQ_FORMAT_TAGGED;
OpenFormat_keep(fmt) == fmt

OpenFormat(fmt) == IF fmt = FI_CQ_FORMAT_UNSPEC THEN FI_CQ_FORMAT_TAGGED ELSE fmt

\* psmx_cq_open(domain, attr, &cq, context): the return value and the
\* pointer stored to *cq (nothing is stored when it fails); o.fail = "cq"
\* when the calloc of the CQ fails
psmx_cq_open(attr, o) ==
    LET fmt == OpenFormat(attr.format)
        w == OpenWait(attr, o)
    IN IF fmt \notin Formats THEN [ret |-> -FI_EINVAL, cq |-> <<>>]
       ELSE IF w.err # 0 THEN [ret |-> w.err, cq |-> <<>>]
       ELSE IF o.fail = "cq" THEN [ret |-> -FI_ENOMEM, cq |-> <<>>]
       ELSE [ret |-> 0,
             cq |-> <<[format |-> fmt, entry_size |-> EntrySize(fmt),
                       wait |-> w.wait]>>]

\* the attributes open is called with: every signaling and condition mode
\* and one beyond the last, with the unspecified format, a named one and one
\* beyond the last; and every format and one beyond the last, without wait
\* object
Attrs ==
    [format : {FI_CQ_FORMAT_UNSPEC, FI_CQ_FORMAT_TAGGED, FI_CQ_FORMAT_TAGGED + 1},
     wait_obj : FI_WAIT_NONE..(FI_WAIT_MUT_COND + 1),
     wait_cond : FI_CQ_COND_NONE..(FI_CQ_COND_THRESHOLD + 1),
     wait_set : {NULL, WaitSetFid}]
    \cup
    [format : FI_CQ_FORMAT_UNSPEC..(FI_CQ_FORMAT_TAGGED + 1),
     wait_obj : {FI_WAIT_NONE},
     wait_cond : {FI_CQ_COND_NONE},
     wait_set : {NULL}]

\* what pipe() and calloc() may do: at most one of them fails in a call
OpenOracles == [fail : {"none", "wait", "pipe", "cq"}, errno : {EMFILE}]

\* fi_cq_open(domain, attr, &cq, context)
Open(attr, o) ==
    /\ ~crashed
    /\ call.op = "none"
    /\ \E r \in {psmx_cq_open(attr, o)} :
          /\ opened' = IF r.ret = 0 THEN r.cq ELSE opened
          /\ last' = [NoCall EXCEPT !.op = "open", !.ret = r.ret, !.arg = attr]
    /\ UNCHANGED <<format, entry_size, event_queue, free_list, pending_error,
                   poll_am_before_mq, psm_mq, ep, mr, workload, cntr, multi_recv,
                   next_id, nwrite, crashed, call, comp, enq, got>>

\* the inner switch of psmx_cq_control: what FI_GETWAIT copies to arg
GetWait(wait) ==
    CASE wait.type = FI_WAIT_SET -> <<wait.wait_set>>
      [] wait.type = FI_WAIT_FD -> <<wait.fd[1]>>
      [] wait.type = FI_WAIT_MUT_COND -> wait.mutex_cond
      [] OTHER -> <<>>

\* psmx_cq_control(fid, command, arg) on a CQ with the given wait
\* pointer: the return value and what is copied to arg. The test guarding
\* the inner switch is if (!cq->wait): with a descriptor the switch is
\* skipped, without one it reads the type through the null pointer, which
\* ends the process or (ub = "none") yields a type no case matches
psmx_cq_control(wait, command, ub) ==
    IF command = FI_GETWAIT
    THEN IF wait = NoWait
         THEN IF ub = "crash" THEN [ret |-> 0, out |-> <<>>, crashed |-> TRUE]
              ELSE [ret |-> 0, out |-> <<>>, crashed |-> FALSE]
         ELSE [ret |-> 0, out |-> <<>>, crashed |-> FALSE]
    ELSE [ret |-> -ENOSYS, out |-> <<>>, crashed |-> FALSE]

\* the commands control is called with
Commands == {FI_GETWAIT, FI_GETWAIT + 1}

\* fi_control(&cq->fid, command, arg) on the CQ opened last
Control(command, ub) ==
    /\ ~crashed
    /\ call.op = "none"
    /\ opened # <<>>
    /\ \E r \in {psmx_cq_control(opened[1].wait, command, ub)} :
          /\ crashed' = r.crashed
          /\ last' = IF r.crashed
                     THEN [NoCall EXCEPT !.op = "crash", !.arg = command,
                                         !.fn = "psmx_cq_control"]
                     ELSE [NoCall EXCEPT !.op = "control", !.ret = r.ret,
                                         !.bytes = r.out, !.arg = command]
    /\ UNCHANGED <<opened, format, entry_size, event_queue, free_list, pending_error,
                   poll_am_before_mq, psm_mq, ep, mr, workload, cntr, multi_recv,
                   next_id, nwrite, call, comp, enq, got>>

NextOpen ==
    \/ \E attr \in Attrs, o \in OpenOracles : Open(attr, o)
    \/ \E command \in Commands, ub \in {"crash", "none"} : Control(command, ub)

SpecOpen == Init /\ [][NextOpen]_vars

----------------------------------------------------------------------------
(* Reads with every combination of capacity and buffer *)

\* too little room and no buffer at once, besides the arguments of ReadArgs
ReadAllArgs(es) == ReadArgs(es) \cup {[len |-> es - 1, buf |-> NULL]}

NextRead ==
    \/ \E x \in workload : Complete(x.kind, x.err, x.nb)
    \/ \E c \in Readers : \E o \in Oracles(NULL) :
          ReadWith(c, o, ReadAllArgs(entry_size[c]))
    \/ \E c \in Readers : ReadErr(c, ErrEntrySize)

SpecRead == Init /\ [][NextRead]_vars

----------------------------------------------------------------------------
(* Every call of the CQ, on a running endpoint *)

\* psm_error_get_string(prov_errno)
psm_error_get_string(code) == <<"psm error", code>>

\* fi_cq_strerror(cq, prov_errno, prov_data, buf, len)
Strerror(c, prov_errno) ==
    /\ ~crashed
    /\ call.op = "none"
    /\ last' = [NoCall EXCEPT !.op = "strerror", !.cq = c, !.arg = prov_errno,
                              !.bytes = psm_error_get_string(prov_errno)]
    /\ UNCHANGED <<opened, format, entry_size, event_queue, free_list, pending_error,
                   poll_am_before_mq, psm_mq, ep, mr, workload, cntr, multi_recv,
                   next_id, nwrite, crashed, call, comp, enq, got>>

\* the open of the run: a CQ with the pipe as wait object
CallAttrs ==
    [format : {FI_CQ_FORMAT_TAGGED}, wait_obj : {FI_WAIT_FD},
     wait_cond : {FI_CQ_COND_NONE}, wait_set : {NULL}]

NoFailure == [fail |-> "none", errno |-> EMFILE]

NextCalls ==
    \/ \E x \in workload : Complete(x.kind, x.err, x.nb)
    \/ \E o \in Oracles(NULL) : Progress(NULL, o)
    \/ \E c \in Readers : \E o \in Oracles(NULL) :
          ReadWith(c, o, {[len |-> entry_size[c], buf |-> UserBuf]})
    \/ \E c \in Readers : ReadErr(c, ErrEntrySize)
    \/ \E c \in Readers : Write(c, entry_size[c])
    \/ \E c \in Readers : Sread(c)
    \/ \E c \in Readers : Strerror(c, PSM_MQ_TRUNCATION)
    \/ \E attr \in CallAttrs : Open(attr, NoFailure)
    \/ \E command \in Commands, ub \in {"crash", "none"} : Control(command, ub)

SpecCalls == Init /\ [][NextCalls]_vars

----------------------------------------------------------------------------
(* Properties: vocabulary *)

IsPrefix(a, b) == Len(a) <= Len(b) /\ SubSeq(b, 1, Len(a)) = a

\* the records CQ c holds, oldest first, as history keys
QueuedKeys(c) == [i \in 1..Len(event_queue[c]) |-> Key(event_queue[c][i], format[c])]

PendingKeys(c) ==
    IF pending_error[c] = NoEvent THEN <<>> ELSE <<Key(pending_error[c], format[c])>>

\* what readers of c have obtained, then what c still holds for them
Held(c) == got[c] \o PendingKeys(c) \o QueuedKeys(c)

\* the step is a call of read on c / with room for an entry and a buffer
ReadCall(c) == last'.op = "read" /\ last'.cq = c

SufficientRead(c) == ReadCall(c) /\ last'.len >= entry_size[c] /\ last'.buf # NULL

\* completion number i is no longer in the MQ
Drained(i) == \A j \in 1..Len(psm_mq) : psm_mq[j].seq # i

\* the CQ and the counter the switch of psmx_cq_poll_mq reports a completion
\* of each context kind to
ExpCq(type) ==
    IF type \in {"SEND", "READ", "WRITE"} THEN ep.send_cq
    ELSE IF type \in {"RECV", "MULTI_RECV"} THEN ep.recv_cq
    ELSE IF type \in RemoteKinds THEN mr.cq
    ELSE NULL

ExpCntr(type) ==
    CASE type \in {"NOCOMP_SEND", "INJECT"} ->
            IF ep.send_cntr_event_flag THEN NULL ELSE ep.send_cntr
      [] type = "NOCOMP_RECV" ->
            IF ep.recv_cntr_event_flag THEN NULL ELSE ep.recv_cntr
      [] type \in {"NOCOMP_WRITE", "INJECT_WRITE"} ->
            IF ep.write_cntr_event_flag THEN NULL ELSE ep.write_cntr
      [] type = "NOCOMP_READ" ->
            IF ep.read_cntr_event_flag THEN NULL ELSE ep.read_cntr
      [] type = "SEND" -> ep.send_cntr
      [] type \in {"RECV", "MULTI_RECV"} -> ep.recv_cntr
      [] type = "READ" -> ep.read_cntr
      [] type = "WRITE" -> ep.write_cntr
      [] OTHER -> mr.cntr

\* the numbers of the drained completions that satisfy Test, in MQ order
DrainedSeqs(Test(_)) ==
    LET Pick(i) == Drained(i) /\ Test(comp[i])
    IN SelectSeq([i \in 1..Len(comp) |-> i], Pick)

\* the completion numbers of the records of keys that were built from a status
StatusSeqs(keys) ==
    LET FromStatus(k) == k.origin = "status"
        ks == SelectSeq(keys, FromStatus)
    IN [i \in 1..Len(ks) |-> ks[i].seq]

----------------------------------------------------------------------------
(* C1 *)

C1_ReadStep(c) ==
    (SufficientRead(c) /\ pending_error[c] = NoEvent) =>
       /\ (event_queue[c] # <<>> /\ ~Head(event_queue[c]).error) =>
             /\ last'.ret = entry_size[c]
             /\ last'.bytes = ReadWords(Head(event_queue[c]).cqe, entry_size[c])
             /\ got'[c] = Append(got[c], Key(Head(event_queue[c]), format[c]))
       /\ (event_queue[c] = <<>> /\ psm_mq = <<>>) =>
             /\ last'.ret = 0
             /\ last'.bytes = <<>>
             /\ got' = got

\* C1: a CQ is a FIFO. The records readers have obtained from a CQ, followed
\* by the records it still holds, are the records enqueued on it in enqueue
\* order; a read with sufficient capacity on a CQ with no pending error
\* returns the oldest queued record, and returns 0 once nothing is queued and
\* no completion is arriving.
C1_Fifo == [][\A c \in CQs : C1_ReadStep(c) /\ Held(c)' = enq'[c]]_vars

\* two records were enqueued, two reads returned them in that order, and a
\* third read returned 0
C1_Witness ==
    /\ last.op = "read" /\ last.ret = 0
    /\ Len(got[1]) = 2 /\ got[1] = enq[1]
    /\ \A i \in 1..2 : ~got[1][i].error

----------------------------------------------------------------------------
(* C2 *)

\* an error record produced by the progress driver has not been drained
ErrorOutstanding(c) ==
    \/ pending_error[c] # NoEvent
    \/ \E i \in 1..Len(event_queue[c]) : event_queue[c][i].error

\* reads give normal events again after read_error has drained the slot
C2_Resume(c) ==
    (/\ last.op = "readerr" /\ last.cq = c /\ last.ret = ErrEntrySize
     /\ SufficientRead(c)
     /\ event_queue[c] # <<>> /\ ~Head(event_queue[c]).error) =>
        /\ last'.ret = entry_size[c]
        /\ last'.bytes = ReadWords(Head(event_queue[c]).cqe, entry_size[c])

\* C2 as stated: from the moment the progress driver has enqueued an error
\* record until read_error drains it, every read returns error-available and
\* copies nothing; afterwards reads resume.
C2_Original ==
    [][\A c \in CQs :
          /\ (ErrorOutstanding(c) /\ ReadCall(c)) =>
                (last'.ret = -FI_EAVAIL /\ last'.bytes = <<>>)
          /\ C2_Resume(c)]_vars

\* C2 (amended): the exclusivity starts when a read finds the error record at
\* the head of the FIFO and stores it in the pending-error slot. That read
\* and every later read return error-available, copy nothing and obtain
\* nothing, the slot is emptied by a successful read_error only, and reads
\* return normal events again afterwards. Records queued ahead of the error
\* record are still returned by reads.
C2_ErrorExclusive ==
    [][\A c \in CQs :
          /\ (ReadCall(c) /\ pending_error[c] # NoEvent) =>
                /\ last'.ret = -FI_EAVAIL /\ last'.bytes = <<>>
                /\ pending_error'[c] = pending_error[c]
                /\ got' = got
          /\ (SufficientRead(c) /\ pending_error[c] = NoEvent
              /\ event_queue[c] # <<>> /\ Head(event_queue[c]).error) =>
                /\ last'.ret = -FI_EAVAIL /\ last'.bytes = <<>>
                /\ pending_error'[c] = Head(event_queue[c])
                /\ got' = got
          /\ (pending_error[c] # NoEvent /\ pending_error'[c] # pending_error[c]) =>
                /\ last'.op = "readerr" /\ last'.cq = c /\ last'.ret = ErrEntrySize
                /\ pending_error'[c] = NoEvent
          /\ C2_Resume(c)]_vars

\* an error record was drained by read_error and a read then returned a
\* normal event
C2_Witness ==
    /\ last.op = "read" /\ last.cq = 1 /\ last.ret = entry_size[1]
    /\ Len(got[1]) = 2 /\ got[1][1].error /\ ~got[1][2].error

----------------------------------------------------------------------------
(* C4 *)

\* C4 as stated: a read with capacity below the entry size returns too-small
\* and leaves the FIFO, the pool and the pending-error slot unchanged.
C4_Original ==
    [][\A c \in CQs :
          (ReadCall(c) /\ last'.len < entry_size[c]) =>
             /\ last'.ret = -FI_ETOOSMALL
             /\ event_queue'[c] = event_queue[c]
             /\ free_list'[c] = free_list[c]
             /\ pending_error'[c] = pending_error[c]]_vars

\* C4 (amended): a read with capacity below the entry size returns
\* error-available when an error is pending and too-small otherwise, copies
\* and obtains nothing and leaves the pending-error slot unchanged; the FIFO
\* only grows at its tail, by the records the progress step of the read
\* builds, so FIFO and pool are unchanged when no completion is ready.
C4_TooSmall ==
    [][\A c \in CQs :
          (ReadCall(c) /\ last'.len < entry_size[c]) =>
             /\ last'.ret = IF pending_error[c] # NoEvent THEN -FI_EAVAIL
                            ELSE -FI_ETOOSMALL
             /\ last'.bytes = <<>>
             /\ got' = got
             /\ pending_error' = pending_error
             /\ IsPrefix(event_queue[c], event_queue'[c])
             /\ psm_mq = <<>> =>
                   (event_queue' = event_queue /\ free_list' = free_list)]_vars

\* a read with too little room returned too-small with a record queued
C4_Witness ==
    /\ last.op = "read" /\ last.len < entry_size[last.cq]
    /\ last.ret = -FI_ETOOSMALL
    /\ event_queue[1] # <<>>

----------------------------------------------------------------------------
(* C5 *)

\* C5: records built from completions reach a CQ in MQ order. For every CQ,
\* the completion numbers of the status-built records readers have obtained
\* from it, followed by those it still holds, are exactly the drained
\* completions routed to that CQ, each once, in the order the MQ delivered
\* them.
C5_MQOrder ==
    \A c \in CQs :
       LET RoutedHere(st) == ExpCq(st.context.type) = c
       IN StatusSeqs(Held(c)) = DrainedSeqs(RoutedHere)

\* a reader obtained the records of two completions, one of them an error
C5_Witness ==
    /\ last.op \in {"read", "readerr"}
    /\ Len(got[1]) = 2
    /\ \A i \in 1..2 : got[1][i].origin = "status"
    /\ got[1][1].seq = 1 /\ got[1][2].seq = 2
    /\ got[1][1].error # got[1][2].error

----------------------------------------------------------------------------
(* C3 *)

IsMultiRecv(st) == st.context.type = "MULTI_RECV"

\* the records of enq[c] built for the multi-recv buffer: one per partial
\* completion, and the flagged one that reports the buffer used up
PartialKeys(c) ==
    LET Partial(k) == k.origin = "status" /\ IsMultiRecv(comp[k.seq])
    IN SelectSeq(enq[c], Partial)

FinalKeys(c) ==
    LET Final(k) == k.origin = "multi"
    IN SelectSeq(enq[c], Final)

BufferKeys(c) ==
    LET OfBuffer(k) == k.origin = "multi" \/ (k.origin = "status" /\ IsMultiRecv(comp[k.seq]))
    IN SelectSeq(enq[c], OfBuffer)

RECURSIVE SumBytes(_)
SumBytes(seqs) ==
    IF seqs = <<>> THEN 0 ELSE comp[Head(seqs)].nbytes + SumBytes(Tail(seqs))

\* C3 as stated: once the partial completions drained for the buffer sum to
\* at least L - M, exactly one record has been enqueued for the buffer on the
\* receive CQ, with the bytes consumed as its length; before that none has.
C3_Original ==
    (ep.recv_cq # NULL /\ multi_recv.state # "ready") =>
       LET recs == BufferKeys(ep.recv_cq)
       IN IF multi_recv.offset >= multi_recv.len - multi_recv.min_buf_size
          THEN /\ Len(recs) = 1
               /\ recs[1].len \in {-1, multi_recv.offset}
          ELSE recs = <<>>

\* C3 (amended): every partial completion drained for the buffer, re-armed or
\* not, enqueues one ordinary record of its own on the receive CQ, with that
\* completion's byte count as its length. When the bytes consumed exceed
\* L - M, so that another chunk of M no longer fits, exactly one more record
\* is enqueued for the buffer, behind all the others, by the completion that
\* used the buffer up; its length field is the buffer's total length L.
\* Until then there is no such record. No other CQ gets a record of the buffer.
C3_MultiRecv ==
    ep.recv_cq # NULL =>
       LET c == ep.recv_cq
           drained == DrainedSeqs(IsMultiRecv)
           partial == PartialKeys(c)
           final == FinalKeys(c)
           recs == BufferKeys(c)
       IN /\ [i \in 1..Len(partial) |-> partial[i].seq] = drained
          /\ \A i \in 1..Len(partial) :
                partial[i].len \in {-1, comp[partial[i].seq].nbytes}
          /\ SumBytes(drained) = multi_recv.offset
          /\ Len(final) = IF multi_recv.offset > multi_recv.len - multi_recv.min_buf_size
                          THEN 1 ELSE 0
          /\ final # <<>> =>
                /\ recs[Len(recs)] = final[1]
                /\ final[1].seq = drained[Len(drained)]
                /\ final[1].len \in {-1, multi_recv.len}
                /\ multi_recv.state = "freed"
          /\ \A c2 \in CQs \ {c} : BufferKeys(c2) = <<>>

\* two partial completions were drained, the first re-armed the buffer and
\* the second used it up; the flagged record carries a length field
C3_Witness ==
    /\ ep.recv_cq # NULL
    /\ multi_recv.state = "freed"
    /\ Len(DrainedSeqs(IsMultiRecv)) = 2
    /\ Len(BufferKeys(ep.recv_cq)) = 3
    /\ FinalKeys(ep.recv_cq)[1].len = multi_recv.len

----------------------------------------------------------------------------
(* C6 *)

\* how many records built for completion i were enqueued on c
RecordsFor(i, c) ==
    LET For(k) == k.origin # "write" /\ k.seq = i
    IN Len(SelectSeq(enq[c], For))

StatusRecordsFor(i, c) ==
    LET For(k) == k.origin = "status" /\ k.seq = i
    IN Len(SelectSeq(enq[c], For))

\* completion i was drained and is of a kind the endpoint routes
EndpointDrained(i) == Drained(i) /\ comp[i].context.type \notin RemoteKinds

CounterOnly(i) ==
    ExpCq(comp[i].context.type) = NULL /\ ExpCntr(comp[i].context.type) # NULL

CqAndCounter(i) ==
    ExpCq(comp[i].context.type) # NULL /\ ExpCntr(comp[i].context.type) # NULL

\* every counter of the endpoint has been incremented once for each drained
\* completion routed to it
CountersExact ==
    \A x \in Counters \ {mr.cntr} :
       LET Counts(st) == st.context.type \notin RemoteKinds /\ ExpCntr(st.context.type) = x
       IN cntr[x] = Len(DrainedSeqs(Counts))

UsedUpBuffer(i) ==
    /\ IsMultiRecv(comp[i])
    /\ multi_recv.offset > multi_recv.len - multi_recv.min_buf_size
    /\ LET drained == DrainedSeqs(IsMultiRecv) IN drained[Len(drained)] = i

----------------------------------------------------------------------------
(* C7 *)

\* C7: write, then read. When a write of an entry-size buffer has just put
\* the only record into the FIFO of a CQ with no pending error and no
\* completion is ready, a read with room for one entry returns the entry size,
\* hands back exactly the bytes that were written and leaves the FIFO empty.
C7_RoundTrip ==
    [][\A c \in CQs :
          (/\ last.op = "write" /\ last.cq = c /\ last.ret = entry_size[c]
           /\ Len(last.bytes) = entry_size[c]
           /\ Len(event_queue[c]) = 1
           /\ pending_error[c] = NoEvent
           /\ psm_mq = <<>>
           /\ SufficientRead(c)) =>
              /\ last'.ret = entry_size[c]
              /\ last'.bytes = last.bytes
              /\ event_queue'[c] = <<>>]_vars

\* a tagged entry, the largest of the four shapes, was written and read back
C7_Witness ==
    /\ format[1] = FI_CQ_FORMAT_TAGGED
    /\ last.op = "read" /\ last.cq = 1 /\ last.ret = entry_size[1]
    /\ got[1] = <<[origin |-> "write", seq |-> 1, error |-> FALSE,
                   len |-> WriteBuf(1, entry_size[1])[4]]>>
    /\ last.bytes = WriteBuf(1, entry_size[1])
    /\ event_queue[1] = <<>>

----------------------------------------------------------------------------
(* C8 *)

\* the endpoint reports sends to a CQ of the tagged format and to a counter
SendBound ==
    /\ ep.send_cq # NULL /\ ep.send_cntr # NULL
    /\ format[ep.send_cq] = FI_CQ_FORMAT_TAGGED

SendOk(st) == st.context.type = "SEND" /\ st.error_code = PSM_OK

\* the step is an explicit progress call that returned
PollCall == last'.op = "poll"

\* the step took completion st out of the MQ
DrainedNow(st) ==
    /\ \E j \in 1..Len(psm_mq) : psm_mq[j] = st
    /\ \A k \in 1..Len(psm_mq') : psm_mq'[k].seq # st.seq

\* the positions in queue q of the records built from the status of st
RecordsOf(q, st) ==
    {i \in 1..Len(q) : q[i].origin = "status" /\ q[i].seq = st.seq}

\* record ev reports length and tag of st in the tagged shape
ReportsSend(ev, st) ==
    /\ ~ev.error
    /\ GetField(ev.cqe, EntryFields(FI_CQ_FORMAT_TAGGED), "len") = st.nbytes
    /\ GetField(ev.cqe, EntryFields(FI_CQ_FORMAT_TAGGED), "tag") = st.msg_tag

\* the send counter moved by the number of completions the step drained for it
SendCounterStep ==
    cntr'[ep.send_cntr] = cntr[ep.send_cntr] +
       Cardinality({j \in 1..Len(psm_mq) :
                       /\ DrainedNow(psm_mq[j])
                       /\ ExpCntr(psm_mq[j].context.type) = ep.send_cntr})

\* C8 as stated: after one progress call every successful send completion
\* that was ready has exactly one record on the send CQ, with the bytes
\* transferred as length and the completion's tag, the counter has counted
\* it, and the record is the one the next read returns.
C8_Original ==
    [][(SendBound /\ PollCall) =>
          /\ \A j \in 1..Len(psm_mq) : SendOk(psm_mq[j]) =>
                LET q == event_queue'[ep.send_cq]
                IN /\ Cardinality(RecordsOf(q, psm_mq[j])) = 1
                   /\ \A i \in RecordsOf(q, psm_mq[j]) : ReportsSend(q[i], psm_mq[j])
                   /\ 1 \in RecordsOf(q, psm_mq[j])
                   /\ pending_error'[ep.send_cq] = NoEvent
          /\ SendCounterStep]_vars

\* C8 (amended): a progress call need not reach a ready completion: it stops
\* at the first record it produces for the CQ it was called for, or after the
\* first completion when called for no CQ. Each successful send completion a
\* progress call does drain gets exactly one new record, appended behind the
\* records already queued on the send CQ, with the bytes transferred as
\* length and the completion's tag, and the send counter counts it once. A
\* read with sufficient capacity returns that record when it has become the
\* oldest queued record and no error is pending.
C8_SendReport ==
    [][SendBound =>
          /\ PollCall =>
                /\ \A j \in 1..Len(psm_mq) :
                      (SendOk(psm_mq[j]) /\ DrainedNow(psm_mq[j])) =>
                         LET q == event_queue'[ep.send_cq]
                         IN /\ Cardinality(RecordsOf(q, psm_mq[j])) = 1
                            /\ \A i \in RecordsOf(q, psm_mq[j]) :
                                  /\ ReportsSend(q[i], psm_mq[j])
                                  /\ i > Len(event_queue[ep.send_cq])
                /\ IsPrefix(event_queue[ep.send_cq], event_queue'[ep.send_cq])
                /\ SendCounterStep
          /\ (/\ SufficientRead(ep.send_cq)
              /\ pending_error[ep.send_cq] = NoEvent
              /\ event_queue[ep.send_cq] # <<>>
              /\ Head(event_queue[ep.send_cq]).origin = "status"
              /\ SendOk(comp[Head(event_queue[ep.send_cq]).seq])) =>
                LET st == comp[Head(event_queue[ep.send_cq]).seq]
                IN /\ last'.ret = entry_size[ep.send_cq]
                   /\ GetField(last'.bytes, EntryFields(FI_CQ_FORMAT_TAGGED), "len")
                         = st.nbytes
                   /\ GetField(last'.bytes, EntryFields(FI_CQ_FORMAT_TAGGED), "tag")
                         = st.msg_tag]_vars

\* a progress call has put the record of a successful send, the second
\* completion of the run, on the send CQ behind an earlier record, and the
\* send counter has counted it
C8_Witness ==
    /\ SendBound
    /\ last.op = "poll"
    /\ Len(comp) = 2 /\ SendOk(comp[2]) /\ Drained(2)
    /\ Len(event_queue[ep.send_cq]) = 2
    /\ event_queue[ep.send_cq][2].origin = "status"
    /\ event_queue[ep.send_cq][2].seq = 2
    /\ ReportsSend(event_queue[ep.send_cq][2], comp[2])
    /\ cntr[ep.send_cntr] >= 1

----------------------------------------------------------------------------
(* C9 *)

ReadErrCall(c) == last'.op = "readerr" /\ last'.cq = c

\* C9: read_error. With room for an error entry it copies the pending error
\* out and empties the slot, or returns 0 and changes nothing when the slot
\* is empty, so that a read_error right after a successful one returns 0;
\* with less room it returns too-small and the pending error stays. It never
\* touches the FIFO or the pool.
C9_ReadErr ==
    [][\A c \in CQs : ReadErrCall(c) =>
          /\ IF last'.len < ErrEntrySize
             THEN /\ last'.ret = -FI_ETOOSMALL
                  /\ last'.bytes = <<>>
                  /\ pending_error' = pending_error
                  /\ got' = got
             ELSE IF pending_error[c] # NoEvent
             THEN /\ last'.ret = ErrEntrySize
                  /\ last'.bytes = SubSeq(pending_error[c].cqe, 1, ErrEntrySize)
                  /\ pending_error'[c] = NoEvent
                  /\ got'[c] = Append(got[c], Key(pending_error[c], format[c]))
             ELSE /\ last'.ret = 0
                  /\ last'.bytes = <<>>
                  /\ pending_error' = pending_error
                  /\ got' = got
          /\ event_queue' = event_queue
          /\ free_list' = free_list
          /\ (/\ last.op = "readerr" /\ last.cq = c /\ last.ret = ErrEntrySize
              /\ last'.len >= ErrEntrySize) => last'.ret = 0]_vars

\* the last record obtained was an error, through read_error, and a further
\* read_error has returned 0
C9_Witness ==
    /\ last.op = "readerr" /\ last.cq = 1 /\ last.ret = 0
    /\ got[1] # <<>> /\ got[1][Len(got[1])].error
    /\ pending_error[1] = NoEvent

----------------------------------------------------------------------------
(* C10 *)

WriteCall(c) == last'.op = "write" /\ last'.cq = c

\* the identities of the records CQ c owns
OwnedIds(c) ==
    {event_queue[c][i].id : i \in 1..Len(event_queue[c])}
       \cup {free_list[c][i].id : i \in 1..Len(free_list[c])}
       \cup {pending_error[c].id}

----------------------------------------------------------------------------
(* C11 *)

\* the identities of the records of queue q
QueueIds(q) == {q[i].id : i \in 1..Len(q)}

\* C11: what read returns. A read that returns gives the CQ's entry size, 0,
\* error-available, too-small or invalid-argument and nothing else, whatever
\* its progress step reported. With the entry size it has copied out exactly
\* that many bytes of exactly one record, which left the FIFO and is now at
\* the head of the pool; with 0 the FIFO is empty; with an error nothing was
\* copied and nothing obtained.
C11_ReadOutcomes ==
    [][\A c \in CQs : ReadCall(c) =>
          LET appended == Len(enq'[c]) - Len(enq[c])
          IN /\ last'.ret \in {entry_size[c], 0, -FI_EAVAIL, -FI_ETOOSMALL, -FI_EINVAL}
             /\ last'.ret = entry_size[c] =>
                   /\ Len(last'.bytes) = entry_size[c]
                   /\ Len(got'[c]) = Len(got[c]) + 1
                   /\ Len(event_queue'[c]) = Len(event_queue[c]) + appended - 1
                   /\ pending_error' = pending_error
                   /\ free_list'[c] # <<>>
                   /\ Head(free_list'[c]).id \notin QueueIds(event_queue'[c])
                   /\ Head(free_list'[c]).id \notin QueueIds(free_list[c])
                         \/ event_queue[c] = <<>>
             /\ last'.ret = 0 =>
                   /\ event_queue'[c] = <<>>
                   /\ pending_error'[c] = NoEvent
                   /\ last'.bytes = <<>>
                   /\ got' = got
             /\ last'.ret < 0 =>
                   /\ last'.bytes = <<>>
                   /\ got' = got
                   /\ Len(event_queue'[c]) + Len(PendingKeys(c)')
                         = Len(event_queue[c]) + Len(PendingKeys(c)) + appended
                   /\ last'.ret = -FI_EAVAIL <=> pending_error'[c] # NoEvent]_vars

\* a read returned 0 although a completion was still in the MQ: its progress
\* step had ended with a failure code
C11_Witness ==
    /\ last.op = "read" /\ last.ret = 0
    /\ psm_mq # <<>>

----------------------------------------------------------------------------
(* C12 *)

\* the completions the step took out of the MQ, oldest first
DrainedNowSeq ==
    LET Gone(st) == \A k \in 1..Len(psm_mq') : psm_mq'[k].seq # st.seq
    IN SelectSeq(psm_mq, Gone)

\* the keys the step appended to the enqueue history of c
AppendedKeys(c) == SubSeq(enq'[c], Len(enq[c]) + 1, Len(enq'[c]))

\* the call was made for no CQ, or st is reported to the CQ it was made for
OfInterest(cq, st) == cq = NULL \/ ExpCq(st.context.type) = cq

\* the progress call ended because the MQ reported this
EndedBy(code) == last'.err = code

\* C12 as stated: a poll call returns 1 only after a record was enqueued on
\* the CQ of interest (on any CQ when none is given), and as soon as the first
\* such record is produced; 0 exactly when the MQ reports nothing ready; a
\* negative code when the MQ reports any other failure.
C12_Original ==
    [][PollCall =>
          /\ last'.ret = 1 =>
                IF last'.cq = NULL
                THEN \E c \in CQs : Len(AppendedKeys(c)) = 1
                ELSE Len(AppendedKeys(last'.cq)) = 1
          /\ last'.ret = 0 <=> EndedBy(PSM_MQ_NO_COMPLETIONS)
          /\ last'.ret < 0 <=> ~EndedBy(PSM_OK) /\ ~EndedBy(PSM_MQ_NO_COMPLETIONS)]_vars

\* C12 (amended): a poll call returns 1 exactly when it has handled a
\* completion of interest: one reported to the CQ it was called for, whose
\* record (and, for a multi-recv completion that used its buffer up, the
\* flagged record too) that CQ has then got, or, when called for no CQ, any
\* completion, also one that produced no record. It returns right after the
\* first such completion. It returns 0 exactly when the MQ reports nothing
\* ready, having handled no completion of interest, and the negated error
\* number, stopping the loop, when the MQ reports any other failure.
C12_PollReturn ==
    [][PollCall =>
          LET cq == last'.cq
              done == DrainedNowSeq
          IN /\ last'.ret = 1 <=> EndedBy(PSM_OK)
             /\ last'.ret = 1 =>
                   /\ done # <<>>
                   /\ OfInterest(cq, done[Len(done)])
                   /\ \A i \in 1..Len(done) - 1 : ~OfInterest(cq, done[i])
                   /\ cq # NULL =>
                         /\ AppendedKeys(cq) # <<>>
                         /\ \A i \in 1..Len(AppendedKeys(cq)) :
                               AppendedKeys(cq)[i].seq = done[Len(done)].seq
             /\ last'.ret = 0 <=> EndedBy(PSM_MQ_NO_COMPLETIONS)
             /\ last'.ret = 0 =>
                   /\ psm_mq' = <<>>
                   /\ \A i \in 1..Len(done) : ~OfInterest(cq, done[i])
             /\ last'.ret \notin {0, 1} =>
                   /\ last'.ret < 0
                   /\ last'.ret = psmx_errno(last'.err)]_vars

\* a call for no CQ returned 1 after a completion that produced no record
C12_Witness ==
    /\ last.op = "poll" /\ last.cq = NULL /\ last.ret = 1
    /\ Len(comp) = 1 /\ Drained(1)
    /\ \A c \in CQs : enq[c] = <<>>

----------------------------------------------------------------------------
(* C13 *)

\* the position in the MQ of the first completion of interest to a call for
\* cq, 0 when there is none
FirstOfInterest(cq) ==
    LET hits == {i \in 1..Len(psm_mq) : OfInterest(cq, psm_mq[i])}
    IN IF hits = {} THEN 0 ELSE CHOOSE i \in hits : \A j \in hits : i <= j

\* C13 as stated: when a poll call has returned without a fatal error, no
\* completion that was ready when it started is left in the MQ.
C13_Original ==
    [][(PollCall /\ last'.ret >= 0) => psm_mq' = <<>>]_vars

\* C13 (amended): a poll call takes completions out of the MQ oldest first.
\* When it returns 0 it has taken them all and none was of interest to it;
\* when it returns 1 it has taken those up to and including the first one of
\* interest (the first one when called for no CQ) and has left the rest, in
\* order, for later calls.
C13_Drain ==
    [][PollCall =>
          /\ \E k \in 0..Len(psm_mq) : psm_mq' = SubSeq(psm_mq, k + 1, Len(psm_mq))
          /\ last'.ret = 0 =>
                /\ psm_mq' = <<>>
                /\ FirstOfInterest(last'.cq) = 0
          /\ last'.ret = 1 =>
                /\ FirstOfInterest(last'.cq) # 0
                /\ psm_mq' = SubSeq(psm_mq, FirstOfInterest(last'.cq) + 1, Len(psm_mq))]_vars

\* a poll call returned 1 and left a ready completion in the MQ
C13_Witness ==
    /\ last.op = "poll" /\ last.ret = 1
    /\ psm_mq # <<>>

----------------------------------------------------------------------------
(* C14 *)

IsRemote(st) == st.context.type \in RemoteKinds

\* how many completions of the given kinds are ready and not yet drained
InFlight(kinds) ==
    Cardinality({i \in 1..Len(psm_mq) : psm_mq[i].context.type \in kinds})

\* the records of the drained one-sided completions are on the CQ of the
\* memory region, one each, and nowhere else
RemoteRecords ==
    \A i \in 1..Len(comp) : (Drained(i) /\ IsRemote(comp[i])) =>
       \A c \in CQs : RecordsFor(i, c) = IF c = mr.cq THEN 1 ELSE 0

\* the counters of the endpoint count the endpoint's completions only, and
\* its in-flight counters the endpoint's operations only
EndpointUntouched ==
    /\ CountersExact
    /\ ep.pending_sends = InFlight(SendKinds)
    /\ ep.pending_writes = InFlight(WriteKinds)
    /\ ep.pending_reads = InFlight(ReadKinds)

\* C14: every drained remote-write or remote-read completion has its record
\* on the CQ of the memory region (when one is bound) and has incremented the
\* counter of the memory region by one (when one is bound); no CQ, counter or
\* in-flight counter of the endpoint is changed by it.
C14_Routing ==
    /\ RemoteRecords
    /\ mr.cntr # NULL => cntr[mr.cntr] = Len(DrainedSeqs(IsRemote))
    /\ EndpointUntouched

----------------------------------------------------------------------------
(* C15 *)

\* the step is a call that ran the poll loop for the CQ last'.cq: an explicit
\* progress call, a read, or a call that died in the loop
RanPollLoop == last'.op \in {"poll", "read", "crash"}

C15_Step ==
    RanPollLoop =>
       LET cq == last'.cq
           done == DrainedNowSeq
       IN \A k \in 1..Len(done) : IsRemote(done[k]) =>
             IF OfInterest(cq, done[k])
             THEN /\ k = Len(done)
                  /\ last'.op # "crash"
                  /\ last'.op = "poll" => last'.ret = 1
             ELSE /\ last'.op # "crash"
                  /\ k = Len(done) => psm_mq' = <<>> \/ last'.err # PSM_OK

\* C15: when the poll loop has handled a one-sided completion whose record
\* belongs to the CQ being polled, or no CQ was requested, the call returns 1
\* at once, so that completion is the last one the call takes from the MQ;
\* when the record belongs to another CQ the loop goes on to the next
\* completion of the MQ, and stops only when the MQ reports none or fails.
C15_EarlyReturn == [][C15_Step]_vars

----------------------------------------------------------------------------
(* C16 *)

\* how often a progress source occurs among the progress calls of a read
TimesRun(ran, source) == Cardinality({i \in 1..Len(ran) : ran[i] = source})

\* the step is a call of read on c, returning or not
ReadEntered(c) == last'.op \in {"read", "crash"} /\ last'.cq = c

\* C16: every read on a CQ runs active-message progress exactly once and MQ
\* progress exactly once. The flag of the CQ tells which source the latest
\* read on it ran first (set: active-message progress): a read, whatever it
\* returns, leaves it telling its own order, which is the opposite of the
\* order it found there, and no other call changes it; so no source runs
\* first in two consecutive reads on the CQ.
C16_Alternate ==
    [][\A c \in CQs :
          /\ ReadCall(c) =>
                /\ TimesRun(last'.ran, "am") = 1
                /\ TimesRun(last'.ran, "mq") = 1
                /\ Head(last'.ran) = "am" <=> poll_am_before_mq'[c]
                /\ Head(last'.ran) = "am" <=> ~poll_am_before_mq[c]
          /\ ~ReadEntered(c) => poll_am_before_mq'[c] = poll_am_before_mq[c]]_vars

\* a read that ran MQ progress first and ended in too-small
C16_Witness ==
    /\ last.op = "read" /\ last.ret = -FI_ETOOSMALL
    /\ Head(last.ran) = "mq"
    /\ ~poll_am_before_mq[last.cq]

----------------------------------------------------------------------------
(* C17 *)

\* C17: a call that has entered the poll loop leaves it again, and returns,
\* whatever the MQ holds and whatever becomes ready while it runs: every pass
\* that goes round again has taken a completion out of the MQ, so a call
\* makes no more of them than completions ever became ready. The blocking
\* read returns not-supported without entering the loop.
C17_NonBlocking ==
    /\ (call.op # "none") ~> (call.op = "none")
    /\ [](call.passes <= Len(comp) - Len(psm_mq))
    /\ [][last'.op = "sread" => last'.ret = -FI_ENOSYS /\ call'.op = "none"]_vars

\* a read is in the loop, has taken a completion out of the MQ, and another
\* one has become ready since
C17_Witness ==
    /\ call.op = "read" /\ call.passes = 1
    /\ last.op = "complete"
    /\ psm_mq # <<>>

----------------------------------------------------------------------------
(* C18 *)

\* the identities of the records held by the pool, the FIFO and the
\* pending-error slot of every CQ, one entry for each place a record is in
HeldIds ==
    LET Ids(q) == [i \in 1..Len(q) |-> q[i].id]
        At(c) == Ids(free_list[c]) \o Ids(event_queue[c])
                    \o (IF pending_error[c] = NoEvent THEN <<>> ELSE <<pending_error[c].id>>)
        RECURSIVE All(_)
        All(c) == IF c = 0 THEN <<>> ELSE All(c - 1) \o At(c)
    IN All(Cardinality(CQs))

\* how many records readerr has freed: one for each error entry a caller got
FreedCount ==
    LET RECURSIVE Sum(_)
        Sum(c) == IF c = 0 THEN 0
                  ELSE Sum(c - 1) + Cardinality({i \in 1..Len(got[c]) : got[c][i].error})
    IN Sum(Cardinality(CQs))

\* C18: every record that exists (allocated for a pool, by the progress
\* driver or by write, and not freed by read_error) is in exactly one place:
\* the pool, the FIFO or the pending-error slot of one CQ, and there once.
C18_Ownership ==
    /\ \A i, j \in 1..Len(HeldIds) : HeldIds[i] = HeldIds[j] => i = j
    /\ \A i \in 1..Len(HeldIds) : HeldIds[i] \in 1..(next_id - 1)
    /\ Len(HeldIds) = (next_id - 1) - FreedCount

\* a read has returned a record to the pool while the FIFO holds another
C18_Witness ==
    /\ last.op = "read" /\ last.ret > 0
    /\ free_list[last.cq] # <<>>
    /\ event_queue[last.cq] # <<>>

----------------------------------------------------------------------------
(* C19: control *)

\* a control call on the CQ opened last returned
Controlled == last'.op = "control"

\* nothing of the CQs, the endpoint or the opened CQ changes in the step
NothingChanges ==
    UNCHANGED <<opened, format, entry_size, event_queue, free_list, pending_error,
                poll_am_before_mq, psm_mq, ep, mr, cntr, multi_recv, next_id,
                nwrite>>

\* C19: the get-wait command on a CQ opened with a wait object delivers
\* that wait descriptor's information (the wait-set reference, the read end
\* of the pipe, or the mutex and condition, by variant) and returns
\* success; every other command returns not-supported and changes nothing.
C19_Control ==
    [][Controlled =>
         /\ (last'.arg = FI_GETWAIT /\ opened[1].wait # NoWait) =>
                /\ last'.ret = 0
                /\ last'.bytes = GetWait(opened[1].wait[1])
         /\ last'.arg # FI_GETWAIT =>
                /\ last'.ret = -FI_ENOSYS
                /\ last'.bytes = <<>>
                /\ NothingChanges]_vars

\* a get-wait on a CQ opened with the pipe variant returned
C19_Witness ==
    /\ last.op = "control" /\ last.arg = FI_GETWAIT
    /\ opened # <<>> /\ opened[1].wait # NoWait
    /\ opened[1].wait[1].type = FI_WAIT_FD

----------------------------------------------------------------------------
(* C20: open validation of signaling *)

\* an open call returned; last'.arg holds its attributes
OpenReturned == last'.op = "open"

WaitObjs == {FI_WAIT_NONE, FI_WAIT_UNSPECIFIED, FI_WAIT_SET, FI_WAIT_FD,
             FI_WAIT_MUT_COND}

FormatValid(attr) == attr.format \in Formats \cup {FI_CQ_FORMAT_UNSPEC}

\* the call did not run out of memory or of file descriptors
NoResourceFailure == last'.ret \notin {-FI_ENOMEM, -EMFILE}

\* the call created a CQ, with a wait descriptor iff one was asked for
CreatedFor(attr) ==
    /\ last'.ret = 0
    /\ opened' # <<>>
    /\ (opened'[1].wait # NoWait) <=> (attr.wait_obj # FI_WAIT_NONE)

\* the call failed with invalid-argument and created nothing
RejectedInvalid == last'.ret = -FI_EINVAL /\ opened' = opened

\* the requests the claim says are refused
InvalidAsStated(attr) ==
    \/ attr.wait_obj \notin WaitObjs
    \/ attr.wait_cond \notin {FI_CQ_COND_NONE, FI_CQ_COND_THRESHOLD}
    \/ attr.wait_obj = FI_WAIT_SET /\ attr.wait_set = NULL

\* the requests refused: the condition mode counts only when a wait object
\* is asked for
InvalidSignaling(attr) ==
    \/ attr.wait_obj \notin WaitObjs
    \/ /\ attr.wait_obj # FI_WAIT_NONE
       /\ attr.wait_cond \notin {FI_CQ_COND_NONE, FI_CQ_COND_THRESHOLD}
    \/ attr.wait_obj = FI_WAIT_SET /\ attr.wait_set = NULL

\* C20 as stated: open fails with invalid-argument and creates no CQ
\* whenever the signaling mode is not one of the five, or the condition mode
\* is not none or threshold, or a wait set is requested and none supplied;
\* every other request with a valid format succeeds (unless a resource runs
\* out), with a wait descriptor iff the signaling mode is not none.
C20_Original ==
    [][OpenReturned =>
         /\ InvalidAsStated(last'.arg) => RejectedInvalid
         /\ (~InvalidAsStated(last'.arg) /\ FormatValid(last'.arg)
               /\ NoResourceFailure) => CreatedFor(last'.arg)]_vars

\* C20: open fails with invalid-argument and creates no CQ whenever the
\* signaling mode is not one of the five, or a wait object is requested with
\* a condition mode other than none and threshold, or a wait set is
\* requested and none supplied; every other request with a valid format
\* succeeds unless memory or the pipe's descriptors run out, a failed call
\* creates nothing, and the CQ created has a wait descriptor iff the
\* signaling mode is not none.
C20_OpenValidation ==
    [][OpenReturned =>
         /\ InvalidSignaling(last'.arg) => RejectedInvalid
         /\ (~InvalidSignaling(last'.arg) /\ FormatValid(last'.arg)
               /\ NoResourceFailure) => CreatedFor(last'.arg)
         /\ last'.ret # 0 => opened' = opened]_vars

\* an open without wait object and with a condition mode beyond threshold
\* succeeded and created a CQ without wait descriptor
C20_Witness ==
    /\ last.op = "open" /\ last.ret = 0
    /\ last.arg.wait_obj = FI_WAIT_NONE
    /\ last.arg.wait_cond \notin {FI_CQ_COND_NONE, FI_CQ_COND_THRESHOLD}
    /\ opened # <<>> /\ opened[1].wait = NoWait

----------------------------------------------------------------------------
(* C21: open format and entry size *)

FormatFrame ==
    [][/\ UNCHANGED <<format, entry_size>>
       /\ \A c \in CQs : format[c] \in Formats /\ entry_size[c] = EntrySize(format[c])]_vars

----------------------------------------------------------------------------
(* C22: progress only on read or explicit progress *)

\* the step took a completion out of the MQ
Consumed == ~IsPrefix(psm_mq, psm_mq')

\* the step is a call of write, read_error, a blocking read, control or
\* strerror, returning or not
OtherCall ==
    \/ last'.op \in {"write", "readerr", "sread", "control", "strerror"}
    \/ last'.op = "crash" /\ last'.fn = "psmx_cq_control"

\* C22: MQ completions are consumed only inside a read or an explicit
\* progress call; write, read_error, the blocking reads, control and
\* strerror never consume a completion, never change a counter or an
\* in-flight counter, and never toggle the progress-interleave flag.
C22_ProgressOnly ==
    [][/\ Consumed =>
            \/ last'.op \in {"read", "poll"}
            \/ last'.op = "crash" /\ last'.fn = "psmx_cq_poll_mq"
       /\ OtherCall => UNCHANGED <<psm_mq, cntr, ep, poll_am_before_mq>>]_vars

\* with a completion ready in the MQ and a CQ opened for control, a
\* read_error drained a pending error and the completion is still in the MQ
C22_Witness ==
    /\ psm_mq # <<>>
    /\ last.op = "readerr" /\ last.ret = ErrEntrySize
    /\ opened # <<>>

----------------------------------------------------------------------------
(* C23: multi-recv re-arm decision *)

\* completion i leaves the MQ in this step
DrainedInStep(i) == ~Drained(i) /\ Drained(i)'

\* C23: a drained multi-recv completion advances the cursor by the bytes
\* received. The buffer is finalized (the flagged record enqueued on the
\* receive CQ, the tracking record released) iff the remaining capacity,
\* total length minus bytes consumed, is smaller than the minimum chunk
\* size. Otherwise, also when the remaining capacity equals the minimum
\* chunk size, a receive is posted at the advanced offset for the remaining
\* length with the same tag, mask, flags and context, no flagged record is
\* enqueued and the tracking record is kept.
C23_Rearm ==
    [][\A i \in 1..Len(comp) :
          (DrainedInStep(i) /\ IsMultiRecv(comp[i])) =>
             LET req == multi_recv
                 off == req.offset + comp[i].nbytes
                 finals == IF ep.recv_cq = NULL THEN 0
                           ELSE Len(FinalKeys(ep.recv_cq)') - Len(FinalKeys(ep.recv_cq))
             IN /\ multi_recv'.offset = off
                /\ IF req.len - off < req.min_buf_size
                   THEN /\ multi_recv'.state = "freed"
                        /\ ep.recv_cq # NULL => finals = 1
                        /\ multi_recv'.posted = req.posted
                   ELSE /\ multi_recv'.state \in {"posted", "unposted"}
                        /\ finals = 0
                        /\ multi_recv'.state = "posted" =>
                              multi_recv'.posted =
                                 [tag |-> req.tag, tagsel |-> req.tagsel,
                                  flags |-> req.flag, buf |-> req.buf + off,
                                  len |-> req.len - off,
                                  context |-> req.posted.context]
                        /\ multi_recv'.state = "unposted" =>
                              multi_recv'.posted = req.posted]_vars

\* a completion left exactly the minimum chunk size free and the buffer was
\* re-armed at the advanced offset
C23_Witness ==
    /\ multi_recv.state = "posted"
    /\ multi_recv.offset > 0
    /\ multi_recv.len - multi_recv.offset = multi_recv.min_buf_size
    /\ multi_recv.posted.buf = multi_recv.buf + multi_recv.offset
    /\ multi_recv.posted.len = multi_recv.min_buf_size

----------------------------------------------------------------------------
(* C24: deferred error surfacing *)

\* an error record is queued on c behind its head
ErrorBehind(c) == \E i \in 2..Len(event_queue[c]) : event_queue[c][i].error

\* C24: an error record enqueued behind other records does not affect reads
\* until it reaches the head of the FIFO: a read with room and a buffer, on
\* a CQ with no error pending, returns the head record as usual and leaves
\* the error record queued and the slot empty. The read that finds the error
\* record at the head stores it in the empty pending-error slot, returns
\* error-available, copies nothing and does not put the record in the pool.
C24_Deferred ==
    [][\A c \in CQs :
          (SufficientRead(c) /\ pending_error[c] = NoEvent /\ event_queue[c] # <<>>) =>
             LET head == Head(event_queue[c])
             IN /\ IsPrefix(Tail(event_queue[c]), event_queue'[c])
                /\ (~head.error /\ ErrorBehind(c)) =>
                      /\ last'.ret = entry_size[c]
                      /\ last'.bytes = ReadWords(head.cqe, entry_size[c])
                      /\ got'[c] = Append(got[c], Key(head, format[c]))
                      /\ pending_error'[c] = NoEvent
                /\ head.error =>
                      /\ pending_error'[c] = head
                      /\ last'.ret = -FI_EAVAIL
                      /\ last'.bytes = <<>>
                      /\ got' = got
                      /\ \A i \in 1..Len(free_list'[c]) : free_list'[c][i].id # head.id]_vars

\* a read returned the normal record that was queued ahead of an error
\* record, which is now at the head with the slot still empty
C24_Witness ==
    /\ last.op = "read" /\ last.cq = 1 /\ last.ret = entry_size[1]
    /\ got[1] # <<>> /\ ~got[1][Len(got[1])].error
    /\ event_queue[1] # <<>> /\ Head(event_queue[1]).error
    /\ pending_error[1] = NoEvent

----------------------------------------------------------------------------
(* C25: kinds without local completion *)

NoLocalKinds ==
    {"NOCOMP_SEND", "NOCOMP_RECV", "NOCOMP_WRITE", "NOCOMP_READ", "INJECT", "INJECT_WRITE"}

\* the endpoint's counter and counter-suppression flag for a kind
KindCntr(type) ==
    CASE type \in SendKinds -> ep.send_cntr
      [] type \in RecvKinds -> ep.recv_cntr
      [] type \in WriteKinds -> ep.write_cntr
      [] type \in ReadKinds -> ep.read_cntr

KindFlag(type) ==
    CASE type \in SendKinds -> ep.send_cntr_event_flag
      [] type \in RecvKinds -> ep.recv_cntr_event_flag
      [] type \in WriteKinds -> ep.write_cntr_event_flag
      [] type \in ReadKinds -> ep.read_cntr_event_flag

\* the completions that leave the MQ in this step
StepDrained == {i \in 1..Len(comp) : DrainedInStep(i)}

\* C25: a drained completion of a no-local-completion or inject kind never
\* enqueues a record on any CQ, and increments the endpoint's counter for
\* its kind by one exactly when the endpoint's counter-suppression flag for
\* that kind is clear; with the flag set neither a CQ nor a counter changes.
C25_NoLocal ==
    [][/\ \A i \in StepDrained : comp[i].context.type \in NoLocalKinds =>
             \A c \in CQs : RecordsFor(i, c)' = 0
       /\ (StepDrained # {} /\ \A i \in StepDrained : comp[i].context.type \in NoLocalKinds) =>
             /\ enq' = enq
             /\ \A x \in Counters :
                   cntr'[x] = cntr[x] + Cardinality({i \in StepDrained :
                                           /\ ~KindFlag(comp[i].context.type)
                                           /\ KindCntr(comp[i].context.type) = x})]_vars

\* a completion without local completion was drained with the flag clear:
\* its counter stands at one and no CQ has a record
C25_Witness ==
    /\ \E i \in 1..Len(comp) :
          /\ Drained(i) /\ comp[i].context.type \in NoLocalKinds
          /\ ~KindFlag(comp[i].context.type)
          /\ KindCntr(comp[i].context.type) # NULL
          /\ cntr[KindCntr(comp[i].context.type)] = 1
    /\ \A c \in CQs : enq[c] = <<>>

----------------------------------------------------------------------------
(* C26: in-flight counters *)

\* how many of the completions drained in this step are of one of the kinds
DrainedOf(kinds) == Cardinality({i \in StepDrained : comp[i].context.type \in kinds})

\* C26: each drained completion of a send, write or read kind, its
\* no-local-completion and inject variants included, decrements the
\* endpoint's in-flight counter of that kind by exactly one and leaves the
\* other in-flight counters unchanged; completions of the recv, multi-recv,
\* remote-write and remote-read kinds leave every in-flight counter
\* unchanged.
C26_InFlight ==
    [][StepDrained # {} =>
          /\ ep'.pending_sends = ep.pending_sends - DrainedOf(SendKinds)
          /\ ep'.pending_writes = ep.pending_writes - DrainedOf(WriteKinds)
          /\ ep'.pending_reads = ep.pending_reads - DrainedOf(ReadKinds)
          /\ ep' = [ep EXCEPT !.pending_sends = ep'.pending_sends,
                              !.pending_writes = ep'.pending_writes,
                              !.pending_reads = ep'.pending_reads]]_vars

\* a write completion was drained while a read completion is still in the
\* MQ: no write is in flight, one read is
C26_Witness ==
    /\ \E i \in 1..Len(comp) : Drained(i) /\ comp[i].context.type \in WriteKinds
    /\ \E i \in 1..Len(comp) : ~Drained(i) /\ comp[i].context.type \in ReadKinds
    /\ ep.pending_writes = 0 /\ ep.pending_reads = 1 /\ ep.pending_sends = 0

----------------------------------------------------------------------------
(* C27: the pending-error slot is never overwritten *)

\* the error records among keys, in order
ErrorKeys(keys) ==
    LET IsError(k) == k.error
    IN SelectSeq(keys, IsError)

\* C27: a record is stored into the pending-error slot of a CQ only when
\* the slot is empty, and the slot is emptied only by a read_error that
\* delivers its record; so no error record is lost: the error records
\* readers have obtained, the one in the slot and those still queued are the
\* error records enqueued, in order. While the slot is occupied a read takes
\* nothing from the FIFO, so a second error record stays queued until
\* read_error has emptied the slot.
C27_NoOverwrite ==
    [][\A c \in CQs :
          /\ (pending_error'[c] # pending_error[c] /\ pending_error'[c] # NoEvent) =>
                pending_error[c] = NoEvent
          /\ (pending_error'[c] # pending_error[c] /\ pending_error[c] # NoEvent) =>
                /\ pending_error'[c] = NoEvent
                /\ got'[c] = Append(got[c], Key(pending_error[c], format[c]))
          /\ pending_error[c] # NoEvent => IsPrefix(event_queue[c], event_queue'[c])
          /\ ErrorKeys(Held(c))' = ErrorKeys(enq[c])']_vars

\* a read returned error-available with one error record in the slot and a
\* second one at the head of the FIFO
C27_Witness ==
    /\ last.op = "read" /\ last.cq = 1 /\ last.ret = -FI_EAVAIL
    /\ pending_error[1] # NoEvent
    /\ event_queue[1] # <<>> /\ Head(event_queue[1]).error

----------------------------------------------------------------------------
(* C28: multi-recv finalization happens once and last *)

\* C28: for the multi-recv buffer of an endpoint with a receive CQ, at most
\* one record flagged as multi-recv completion is ever enqueued, exactly one
\* once the buffer has been used up; it stands behind every other record
\* produced for the buffer; and once it is enqueued the buffer is not
\* re-armed and no further record is produced for it.
C28_FinalOnce ==
    [][ep.recv_cq # NULL =>
          LET c == ep.recv_cq
          IN /\ Len(FinalKeys(c)') = IF multi_recv'.state = "freed" THEN 1 ELSE 0
             /\ FinalKeys(c)' # <<>> =>
                   BufferKeys(c)'[Len(BufferKeys(c)')] = FinalKeys(c)'[1]
             /\ FinalKeys(c) # <<>> =>
                   /\ multi_recv' = multi_recv
                   /\ \A c2 \in CQs : BufferKeys(c2)' = BufferKeys(c2)]_vars

\* the buffer was used up by the first completion, its flagged record stands
\* behind its ordinary record, and a completion of another operation was
\* drained afterwards
C28_Witness ==
    /\ ep.recv_cq # NULL
    /\ multi_recv.state = "freed"
    /\ Len(BufferKeys(ep.recv_cq)) = 2
    /\ BufferKeys(ep.recv_cq)[2].origin = "multi"
    /\ Len(comp) = 2 /\ IsMultiRecv(comp[1]) /\ ~IsMultiRecv(comp[2])
    /\ Drained(2)

----------------------------------------------------------------------------
(* C29: precedence of read failures *)

\* C29: when several failure conditions hold at once, a read reports
\* error-available if an error is pending, else too-small if the capacity is
\* below the entry size, else invalid-argument if the buffer is null; in all
\* three cases no record is dequeued, so a record leaves the FIFO only when
\* no error is pending, the capacity suffices and the buffer is not null.
C29_Precedence ==
    [][\A c \in CQs :
          /\ ReadCall(c) =>
                /\ pending_error[c] # NoEvent => last'.ret = -FI_EAVAIL
                /\ (pending_error[c] = NoEvent /\ last'.len < entry_size[c]) =>
                      last'.ret = -FI_ETOOSMALL
                /\ (pending_error[c] = NoEvent /\ last'.len >= entry_size[c]
                      /\ last'.buf = NULL) => last'.ret = -FI_EINVAL
                /\ (pending_error[c] # NoEvent \/ last'.len < entry_size[c]
                      \/ last'.buf = NULL) =>
                      /\ IsPrefix(event_queue[c], event_queue'[c])
                      /\ last'.bytes = <<>>
                      /\ got' = got /\ pending_error' = pending_error
          /\ ~IsPrefix(event_queue[c], event_queue'[c]) =>
                /\ SufficientRead(c)
                /\ pending_error[c] = NoEvent]_vars

\* with an error pending, a read with too little room returned
\* error-available and left the queued record where it was
C29_Witness ==
    /\ last.op = "read" /\ last.cq = 1 /\ last.len < entry_size[1]
    /\ last.ret = -FI_EAVAIL
    /\ pending_error[1] # NoEvent
    /\ event_queue[1] # <<>>
====
